---- MODULE Spec2Model ----
(***************************************************************************)
(* Verification model of the dastd marshaling subsystem: the binary and    *)
(* the JSON encoder/decoder pairs (marshal_enc_bin, marshal_dec_bin,       *)
(* marshal_enc_json, marshal_dec_json) with the JSON tokenizer and the     *)
(* multinum number container they rely on.                                 *)
(*                                                                         *)
(* Every codec method is an operator from the codec object (a record) to   *)
(* the codec object after the call.  A failed assert() or a thrown         *)
(* exception_marshal leaves the object with ok = FALSE.  The actions are   *)
(* the calls a user program makes on the codecs.                           *)
(***************************************************************************)
EXTENDS Integers, Sequences, FiniteSets, TLC

VARIABLES
    fmt,      \* wire format of this run: "bin" or "json"
    poly,     \* marshal_json_polymorphic_encoding of the JSON codecs
    scen,     \* the value the writer holds and the schema the reader declares
    phase,    \* "enc"/"dec"/"done": writer, reader, finished;
              \* "fenc"/"fdec": a caller making arbitrary calls;
              \* "push"/"pull": a caller of json_tokenizer, json_tokenizer_sourced
              \* "tdec": a reader making arbitrary calls on a JSON text
              \* "num"/"dead": a caller of multinum, the program aborted
    enc,      \* the encoder object
    dec,      \* the decoder object
    ecalls,   \* encoder calls the writer still has to make
    dtodo,    \* what the reader still has to do
    dlog,     \* what the decoder returned to the reader, call by call
    ncalls,   \* number of calls the arbitrary caller has made
    last,     \* the last call made: its name and the object before it
    tok,      \* the JSON tokenizer of a program that drives it directly
    tlog,     \* the calls that program has made, the construction first:
              \* name, character passed (CH32_EOF when none), value returned,
              \* m_state at return
    num       \* the multinum object of a program that drives it directly

vars == <<fmt, poly, scen, phase, enc, dec, ecalls, dtodo, dlog, ncalls, last,
          tok, tlog, num>>

-----------------------------------------------------------------------------
(* Bounds of the model *)

\* Longest string (in code points) among the generated values
MaxStrLen == 1

\* Longest UTF-32 string (in code points) written by the binary codec
MaxU32Len == 3

\* Largest number of elements of a generated array or dictionary
MaxElems == 2

\* Longest run of calls explored on a codec driven without a program
MaxFreeCalls == 4

\* Largest number of calls of process_char and process_eof on a tokenizer
MaxTokCalls == 5

\* Largest number of calls of fetch_token on a tokenizer
MaxFetches == 3

\* Longest text a tokenizer reads from a source
MaxTextLen == 5

\* Longest run of number characters a tokenizer reads from a source
MaxRunLen == 5
MaxItems == 3             \* tokens between the brackets of a JSON text read
MaxTextCalls == 9         \* calls of the reader of a JSON text
MaxNumCalls == 3          \* calls of the caller of multinum

-----------------------------------------------------------------------------
(* Program constants *)

marshal_label_id_INVALID == 0

\* marshal_array_SIZE_UNKNOWN is (size_t)-1; any value no count can take
marshal_array_SIZE_UNKNOWN == -1

UTF8_CHAR_MAX_LEN == 5

CH32_EOF == -1

-----------------------------------------------------------------------------
(* Generic helpers *)

Top(s) == s[Len(s)]

Pop(s) == SubSeq(s, 1, Len(s) - 1)

Last(s) == s[Len(s)]

\* The element of a singleton; The({e : x \in {v}}) is e with x standing for
\* the value of v
The(S) == CHOOSE r \in S : TRUE

RECURSIVE Pow(_, _)
Pow(b, n) == IF n = 0 THEN 1 ELSE b * Pow(b, n - 1)

\* DASTD_BINGET(value, pos, len): len bits of value starting at bit pos
BINGET(value, pos, len) == (value \div Pow(2, pos)) % Pow(2, len)

RECURSIVE Concat(_)
Concat(ss) == IF ss = <<>> THEN <<>> ELSE Head(ss) \o Concat(Tail(ss))

\* Width in bytes of the integral types of the marshaling interface
SizeOf(kind) ==
    CASE kind \in {"bool", "u8", "i8"} -> 1
      [] kind \in {"u16", "i16"} -> 2
      [] kind \in {"u32", "i32"} -> 4
      [] kind \in {"u64", "i64"} -> 8

IsSigned(kind) == kind \in {"i8", "i16", "i32", "i64"}

\* native_to_little_endian: the n bytes of value, least significant first
\* (floor division yields the two's complement bytes of a negative value)
RECURSIVE native_to_little_endian(_, _)
native_to_little_endian(value, n) ==
    IF n = 0 THEN <<>>
    ELSE <<value % 256>> \o native_to_little_endian(value \div 256, n - 1)

INT32_MAX == 2147483647

\* An unsigned value above INT32_MAX is held as INT32_MAX: as a length or a
\* size it still exceeds every input, as a label id it still matches no label
RECURSIVE le_unsigned(_)
le_unsigned(bytes) ==
    IF bytes = <<>> THEN 0
    ELSE LET high == le_unsigned(Tail(bytes))
         IN IF high > (INT32_MAX - Head(bytes)) \div 256 THEN INT32_MAX
            ELSE Head(bytes) + 256 * high

\* offset + size of a size_t, held the same way
size_add(offset, size) ==
    IF size > INT32_MAX - offset THEN INT32_MAX ELSE offset + size

\* little_endian_to_native: the value held by the bytes, for a type that is
\* signed or not
little_endian_to_native(bytes, signed) ==
    LET n == Len(bytes)
        top == bytes[n]
    IN IF signed /\ top >= 128
       THEN \* value - 2^(8n), computed without leaving the integer range
            LET compl == [i \in 1..n |-> 255 - bytes[i]]
            IN -(le_unsigned(compl)) - 1
       ELSE le_unsigned(bytes)

-----------------------------------------------------------------------------
(* utf8.hpp *)

count_utf8_following_chars(ch) ==
    IF BINGET(ch, 5, 3) = 6 THEN 1          \* (ch & 0xE0) == 0xC0
    ELSE IF BINGET(ch, 4, 4) = 14 THEN 2    \* (ch & 0xF0) == 0xE0
    ELSE IF BINGET(ch, 3, 5) = 30 THEN 3    \* (ch & 0xF8) == 0xF0
    ELSE 0

\* The bytes write_utf8_asciiz stores for a code point (none when too big)
write_utf8_asciiz(code_point) ==
    IF code_point < 128 THEN <<code_point>>
    ELSE IF code_point < 2048
         THEN <<192 + BINGET(code_point, 6, 5), 128 + BINGET(code_point, 0, 6)>>
    ELSE IF code_point < 65536
         THEN <<224 + BINGET(code_point, 12, 4), 128 + BINGET(code_point, 6, 6),
                128 + BINGET(code_point, 0, 6)>>
    ELSE IF code_point < 1114111
         THEN <<240 + BINGET(code_point, 18, 3), 128 + BINGET(code_point, 12, 6),
                128 + BINGET(code_point, 6, 6), 128 + BINGET(code_point, 0, 6)>>
    ELSE <<>>

\* write_utf8_to_char_buffer over a whole char32 string
RECURSIVE write_utf8(_)
write_utf8(string) ==
    IF string = <<>> THEN <<>>
    ELSE write_utf8_asciiz(Head(string)) \o write_utf8(Tail(string))

calc_utf8_length(string) == Len(write_utf8(string))

IsUtfNext(byte) == BINGET(byte, 6, 2) = 2   \* (byte & 0xC0) == 0x80

\* read_utf8_asciiz on the bytes chars (what lies behind them reads as the
\* zero terminator): <<number of bytes read, code point>>, 0 bytes on error
read_utf8_asciiz(chars) ==
    LET at(i) == IF i <= Len(chars) THEN chars[i] ELSE 0
    IN IF at(1) = 0 THEN <<0, 0>>
       ELSE IF at(1) < 128 THEN <<1, at(1)>>
       ELSE IF BINGET(at(1), 5, 3) = 6
            THEN IF ~IsUtfNext(at(2)) THEN <<0, 0>>
                 ELSE <<2, BINGET(at(1), 0, 5) * 64 + BINGET(at(2), 0, 6)>>
       ELSE IF BINGET(at(1), 4, 4) = 14
            THEN IF ~IsUtfNext(at(2)) \/ ~IsUtfNext(at(3)) THEN <<0, 0>>
                 ELSE <<3, BINGET(at(1), 0, 4) * 4096 + BINGET(at(2), 0, 6) * 64
                           + BINGET(at(3), 0, 6)>>
       ELSE IF BINGET(at(1), 3, 5) = 30
            THEN IF ~IsUtfNext(at(2)) \/ ~IsUtfNext(at(3)) \/ ~IsUtfNext(at(4))
                 THEN <<0, 0>>
                 ELSE <<4, BINGET(at(1), 0, 3) * 262144 + BINGET(at(2), 0, 6) * 4096
                           + BINGET(at(3), 0, 6) * 64 + BINGET(at(4), 0, 6)>>
       ELSE <<1, at(1)>>

-----------------------------------------------------------------------------
(* marshal.hpp: labels *)

\* crc32 of a label text.  The CRC table is not part of the sources at hand;
\* the model uses a position-weighted sum, which is non-zero and distinct on
\* the label texts of the model.
RECURSIVE crc32(_)
crc32(text) ==
    IF text = <<>> THEN 7 ELSE ((Head(text) + 131 * crc32(Tail(text))) % 1000003) + 1

\* marshal_label(label_text): the pair of the text and its hash
marshal_label(label_text) == [text |-> label_text, id |-> crc32(label_text)]

\* marshal_label_info_calc / _to_id / _is_optional
marshal_label_info_calc(label_text, optional) ==
    [id |-> crc32(label_text), optional |-> optional]

marshal_label_info_to_id(label_info) == label_info.id

marshal_label_info_is_optional(label_info) == label_info.optional

-----------------------------------------------------------------------------
(* marshal_enc_bin.hpp: the binary encoder                                 *)
(* object: stack (frames [type, pos, ext]), out (the stream), cur (tellp), *)
(* ok (the program goes on), aborted (it stopped on a failed assertion)    *)

enc_bin_new ==
    [stack |-> <<>>, out |-> <<>>, cur |-> 0, ok |-> TRUE, aborted |-> FALSE]

\* assert(cond) failing: the program is aborted, no exception is raised
AssertFail(e) == [e EXCEPT !.ok = FALSE, !.aborted = TRUE]

\* marshal_enc_bin_ostream::write_bytes: writes at the put position, which
\* set_curr_pos may have moved back into data already written
enc_bin_write_bytes(e, bytes) ==
    LET n == Len(bytes)
        before == SubSeq(e.out, 1, e.cur)
        after == SubSeq(e.out, e.cur + n + 1, Len(e.out))
    IN [e EXCEPT !.out = before \o bytes \o after, !.cur = e.cur + n]

enc_bin_get_curr_pos(e) == e.cur

enc_bin_set_curr_pos(e, pos) == [e EXCEPT !.cur = pos]

enc_bin_pos_diff(p1, p2) == p2 - p1

enc_bin_encode_bool(e, value) ==
    enc_bin_write_bytes(e, <<IF value THEN 1 ELSE 0>>)

\* encode_u8 .. encode_i64: the little-endian bytes of the value
enc_bin_encode_int(e, kind, value) ==
    enc_bin_write_bytes(e, native_to_little_endian(value, SizeOf(kind)))

enc_bin_encode_u32(e, value) == enc_bin_encode_int(e, "u32", value)

enc_bin_encode_size_indicator(e, size) == enc_bin_encode_u32(e, size)

\* value: the bytes of the std::string
enc_bin_encode_string_utf8(e, value) ==
    enc_bin_write_bytes(enc_bin_encode_u32(e, Len(value)), value)

\* value: the code points of the std::u32string
enc_bin_encode_u32string(e, value) ==
    enc_bin_write_bytes(enc_bin_encode_u32(e, calc_utf8_length(value)),
                        write_utf8(value))

enc_bin_internal_encode_varsize_binary(e, data) ==
    enc_bin_write_bytes(enc_bin_encode_u32(e, Len(data)), data)

enc_bin_push(e, type, extensible) ==
    [e EXCEPT !.stack = Append(@, [type |-> type, pos |-> enc_bin_get_curr_pos(e),
                                   ext |-> extensible])]

enc_bin_top_is(e, type) == e.stack # <<>> /\ Top(e.stack).type = type

enc_bin_encode_struct_begin(e, extensible) ==
    IF ~(e.stack = <<>> \/ (Top(e.stack).type # "STRUCT" /\ Top(e.stack).type # "ARRAY"))
    THEN AssertFail(e)
    ELSE LET pushed == enc_bin_push(e, "STRUCT", extensible)
         IN IF extensible THEN enc_bin_encode_size_indicator(pushed, 0) ELSE pushed

\* The back-patch with the size of the frame, its indicator included
enc_bin_patch_size_with_indicator(e) ==
    LET currpos == enc_bin_get_curr_pos(e)
        size == enc_bin_pos_diff(Top(e.stack).pos, currpos)
        patched == enc_bin_encode_size_indicator(
                       enc_bin_set_curr_pos(e, Top(e.stack).pos), size)
    IN enc_bin_set_curr_pos(patched, currpos)

\* The back-patch of the size indicator shared by encode_struct_end and
\* encode_typed_end
enc_bin_patch_size(e) ==
    LET currpos == enc_bin_get_curr_pos(e)
        size == enc_bin_pos_diff(Top(e.stack).pos, currpos)
        patched == enc_bin_encode_size_indicator(
                       enc_bin_set_curr_pos(e, Top(e.stack).pos), size - 4)
    IN enc_bin_set_curr_pos(patched, currpos)

enc_bin_encode_struct_end(e) ==
    IF ~enc_bin_top_is(e, "STRUCT") THEN AssertFail(e)
    ELSE LET sized == IF Top(e.stack).ext THEN enc_bin_patch_size(e) ELSE e
         IN [sized EXCEPT !.stack = Pop(@)]

\* encode_struct_field_begin without the presence flag of an optional field
\* that is present
enc_bin_encode_struct_field_begin_no_flag(e, label, opt) ==
    IF ~enc_bin_top_is(e, "STRUCT") THEN AssertFail(e)
    ELSE CASE opt = "MANDATORY" -> enc_bin_push(e, "FIELD", FALSE)
           [] opt = "OPTIONAL_MISSING" ->
                enc_bin_push(enc_bin_encode_bool(e, FALSE), "FIELD_MISSING", FALSE)
           [] opt = "OPTIONAL_PRESENT" -> enc_bin_push(e, "FIELD", FALSE)

enc_bin_encode_struct_field_begin(e, label, opt) ==
    IF ~enc_bin_top_is(e, "STRUCT") THEN AssertFail(e)
    ELSE CASE opt = "MANDATORY" -> enc_bin_push(e, "FIELD", FALSE)
           [] opt = "OPTIONAL_MISSING" ->
                enc_bin_push(enc_bin_encode_bool(e, FALSE), "FIELD_MISSING", FALSE)
           [] opt = "OPTIONAL_PRESENT" ->
                enc_bin_push(enc_bin_encode_bool(e, TRUE), "FIELD", FALSE)

enc_bin_encode_struct_field_end(e) ==
    IF ~(enc_bin_top_is(e, "FIELD") \/ enc_bin_top_is(e, "FIELD_MISSING"))
    THEN AssertFail(e)
    ELSE [e EXCEPT !.stack = Pop(@)]

enc_bin_encode_array_begin(e, count) ==
    IF ~(e.stack = <<>> \/ (Top(e.stack).type # "STRUCT" /\ Top(e.stack).type # "ARRAY"))
    THEN AssertFail(e)
    ELSE enc_bin_push(enc_bin_encode_size_indicator(e, count), "ARRAY", FALSE)

enc_bin_encode_array_end(e) ==
    IF ~enc_bin_top_is(e, "ARRAY") THEN AssertFail(e)
    ELSE [e EXCEPT !.stack = Pop(@)]

enc_bin_encode_array_element_begin(e) ==
    IF ~enc_bin_top_is(e, "ARRAY") THEN AssertFail(e)
    ELSE enc_bin_push(e, "ARRAY_ELEMENT", FALSE)

enc_bin_encode_array_element_end(e) ==
    IF ~enc_bin_top_is(e, "ARRAY_ELEMENT") THEN AssertFail(e)
    ELSE [e EXCEPT !.stack = Pop(@)]

enc_bin_encode_dictionary_begin(e, count) ==
    IF ~(e.stack = <<>> \/ (Top(e.stack).type # "STRUCT"
                            /\ Top(e.stack).type # "DICTIONARY"))
    THEN AssertFail(e)
    ELSE enc_bin_push(enc_bin_encode_size_indicator(e, count), "DICTIONARY", FALSE)

enc_bin_encode_dictionary_end(e) ==
    IF ~enc_bin_top_is(e, "DICTIONARY") THEN AssertFail(e)
    ELSE [e EXCEPT !.stack = Pop(@)]

enc_bin_encode_dictionary_element_begin(e, key) ==
    IF ~enc_bin_top_is(e, "DICTIONARY") THEN AssertFail(e)
    ELSE enc_bin_encode_string_utf8(enc_bin_push(e, "DICTIONARY_ELEMENT", FALSE), key)

enc_bin_encode_dictionary_element_end(e) ==
    IF ~enc_bin_top_is(e, "DICTIONARY_ELEMENT") THEN AssertFail(e)
    ELSE [e EXCEPT !.stack = Pop(@)]

enc_bin_encode_typed_begin(e, label, extensible) ==
    IF ~(e.stack = <<>> \/ (Top(e.stack).type # "STRUCT" /\ Top(e.stack).type # "ARRAY"))
    THEN AssertFail(e)
    ELSE LET pushed == enc_bin_push(enc_bin_encode_u32(e, label.id), "TYPED", extensible)
         IN IF extensible THEN enc_bin_encode_size_indicator(pushed, 0) ELSE pushed

enc_bin_encode_typed_end(e) ==
    IF ~enc_bin_top_is(e, "TYPED") THEN AssertFail(e)
    ELSE LET sized == IF Top(e.stack).ext THEN enc_bin_patch_size(e) ELSE e
         IN [sized EXCEPT !.stack = Pop(@)]

-----------------------------------------------------------------------------
(* marshal_dec_bin.hpp, marshal_dec_bin__inline.hpp: the binary decoder    *)
(* object: stack (frames), inp (the bytes of the source), offset           *)
(* (m_offset), ok (no exception thrown), aborted, buf (bytes handed by the *)
(* last read_bytes), ret (value returned by the last call, as a sequence   *)
(* of integers), present (the flag stored through optional_present)        *)

dec_bin_new(input) ==
    [stack |-> <<>>, inp |-> input, offset |-> 0, ok |-> TRUE, aborted |-> FALSE,
     buf |-> <<>>, ret |-> <<>>, present |-> TRUE]

\* DASTD_THROW(exception_marshal, ...)
Throw(d) == [d EXCEPT !.ok = FALSE]

\* marshal_dec_bin::stack_element and its constructors
dec_bin_stack_element(element_type, extensible, end_offset, field_infos, fields_count) ==
    [type |-> element_type, ext |-> extensible, end_offset |-> end_offset,
     field_infos |-> field_infos, fields_count |-> fields_count, field_pos |-> 0]

\* read_bytes over read_bytes_impl: fails when the source runs dry
dec_bin_read_bytes(d, length) ==
    IF length > Len(d.inp) - d.offset THEN Throw(d)
    ELSE [d EXCEPT !.buf = SubSeq(d.inp, d.offset + 1, d.offset + length),
                   !.offset = d.offset + length]

\* skip_bytes over skip_bytes_impl (one read_bytes_impl per byte)
dec_bin_skip_bytes(d, length) ==
    IF length > Len(d.inp) - d.offset THEN Throw(d)
    ELSE [d EXCEPT !.offset = d.offset + length]

dec_bin_decode_bool(d) ==
    LET r == dec_bin_read_bytes(d, 1)
    IN IF ~r.ok THEN r
       ELSE [r EXCEPT !.ret = <<IF r.buf[1] # 0 THEN 1 ELSE 0>>]

\* decode_u8 .. decode_i64
dec_bin_decode_int(d, kind) ==
    LET r == dec_bin_read_bytes(d, SizeOf(kind))
    IN IF ~r.ok THEN r
       ELSE [r EXCEPT !.ret = <<little_endian_to_native(r.buf, IsSigned(kind))>>]

dec_bin_decode_u32(d) == dec_bin_decode_int(d, "u32")

dec_bin_decode_size_indicator(d) == dec_bin_decode_u32(d)

dec_bin_decode_string_utf8(d) ==
    LET l == dec_bin_decode_u32(d)
    IN IF ~l.ok THEN l
       ELSE LET r == dec_bin_read_bytes(l, l.ret[1])
            IN IF ~r.ok THEN r ELSE [r EXCEPT !.ret = r.buf]

\* The for loop of decode_u32string from index i on; value is the string
\* decoded so far
RECURSIVE dec_bin_decode_u32string_loop(_, _, _, _)
dec_bin_decode_u32string_loop(d, length, i, value) ==
    IF ~(i < length) THEN [d EXCEPT !.ret = value]
    ELSE The({
        IF ~c.ok THEN c
        ELSE LET ch == c.buf[1]
                 extra_chars == count_utf8_following_chars(ch)
             IN IF extra_chars = 0
                THEN dec_bin_decode_u32string_loop(c, length, i + 1, Append(value, ch))
                ELSE IF extra_chars > length - i THEN Throw(c)
                ELSE The({
                    IF ~r.ok THEN r
                    ELSE The({
                        \* assert(debug_size == ((size_t)(extra_chars+1)))
                        IF u[1] # extra_chars + 1 THEN AssertFail(r)
                        ELSE dec_bin_decode_u32string_loop(
                                 r, length, i + extra_chars + 1 + 1, Append(value, u[2])) :
                        u \in {read_utf8_asciiz(<<ch>> \o r.buf)}}) :
                    r \in {dec_bin_read_bytes(c, extra_chars)}}) :
        c \in {dec_bin_read_bytes(d, 1)}})

dec_bin_decode_u32string(d) ==
    LET l == dec_bin_decode_u32(d)
    IN IF ~l.ok THEN l ELSE dec_bin_decode_u32string_loop(l, l.ret[1], 0, <<>>)

dec_bin_internal_decode_varsize_binary(d) ==
    LET l == dec_bin_decode_u32(d)
    IN IF ~l.ok THEN l
       ELSE LET r == dec_bin_read_bytes(l, l.ret[1])
            IN IF ~r.ok THEN r ELSE [r EXCEPT !.ret = r.buf]

dec_bin_top_in(d, types) == d.stack # <<>> /\ Top(d.stack).type \in types

dec_bin_push(d, frame) == [d EXCEPT !.stack = Append(@, frame)]

dec_bin_decode_struct_begin(d, extensible, field_infos) ==
    IF dec_bin_top_in(d, {"STRUCT", "ARRAY", "DICTIONARY"}) THEN Throw(d)
    ELSE LET l == IF extensible THEN dec_bin_decode_size_indicator(d)
                  ELSE [d EXCEPT !.ret = <<0>>]
         IN IF ~l.ok THEN l
            ELSE dec_bin_push(l, dec_bin_stack_element(
                     "STRUCT", extensible, size_add(l.offset, l.ret[1]), field_infos,
                     Len(field_infos)))

\* decode_struct_end without the skip of the bytes the reader left unread
dec_bin_decode_struct_end_no_skip(d) ==
    IF d.stack = <<>> THEN Throw(d)
    ELSE LET cur_stack == Top(d.stack)
         IN IF cur_stack.type # "STRUCT" THEN Throw(d)
            ELSE IF cur_stack.ext /\ d.offset > cur_stack.end_offset THEN Throw(d)
            ELSE [d EXCEPT !.stack = Pop(@)]

dec_bin_decode_struct_end(d) ==
    IF d.stack = <<>> THEN Throw(d)
    ELSE LET cur_stack == Top(d.stack)
         IN IF cur_stack.type # "STRUCT" THEN Throw(d)
            ELSE LET s == IF cur_stack.ext /\ d.offset < cur_stack.end_offset
                          THEN dec_bin_skip_bytes(d, cur_stack.end_offset - d.offset)
                          ELSE IF cur_stack.ext /\ d.offset > cur_stack.end_offset
                          THEN Throw(d)
                          ELSE d
                 IN IF ~s.ok THEN s ELSE [s EXCEPT !.stack = Pop(@)]

\* decode_struct_field_begin without the test of the end offset of an
\* extensible struct
dec_bin_decode_struct_field_begin_no_end(d, optional_present) ==
    IF d.stack = <<>> THEN Throw(d)
    ELSE LET cur_stack == Top(d.stack)
         IN IF cur_stack.type # "STRUCT" THEN Throw(d)
            ELSE IF cur_stack.field_pos >= cur_stack.fields_count
            THEN [d EXCEPT !.ret = <<marshal_label_id_INVALID>>]
            ELSE LET label_info == cur_stack.field_infos[cur_stack.field_pos + 1]
                     label_id == marshal_label_info_to_id(label_info)
                     is_optional == marshal_label_info_is_optional(label_info)
                     counted == [d EXCEPT !.stack[Len(d.stack)].field_pos = @ + 1]
                     pushed == dec_bin_push(counted, dec_bin_stack_element(
                                                "FIELD", FALSE, 0, <<>>, 0))
                 IN IF is_optional
                    THEN IF ~optional_present THEN AssertFail(pushed)
                         ELSE LET b == dec_bin_decode_bool(pushed)
                              IN IF ~b.ok THEN b
                                 ELSE [b EXCEPT !.present = (b.ret[1] = 1),
                                                !.ret = <<label_id>>]
                    ELSE [pushed EXCEPT !.present = optional_present \/ @,
                                        !.ret = <<label_id>>]

\* optional_present: the caller passes a pointer to its flag (not nullptr)
dec_bin_decode_struct_field_begin(d, optional_present) ==
    IF d.stack = <<>> THEN Throw(d)
    ELSE LET cur_stack == Top(d.stack)
         IN IF cur_stack.type # "STRUCT" THEN Throw(d)
            ELSE IF cur_stack.field_pos >= cur_stack.fields_count
            THEN [d EXCEPT !.ret = <<marshal_label_id_INVALID>>]
            ELSE IF cur_stack.ext /\ cur_stack.end_offset = d.offset
            THEN [d EXCEPT !.ret = <<marshal_label_id_INVALID>>]
            ELSE IF cur_stack.ext /\ cur_stack.end_offset < d.offset THEN Throw(d)
            ELSE LET label_info == cur_stack.field_infos[cur_stack.field_pos + 1]
                     label_id == marshal_label_info_to_id(label_info)
                     is_optional == marshal_label_info_is_optional(label_info)
                     counted == [d EXCEPT !.stack[Len(d.stack)].field_pos = @ + 1]
                     pushed == dec_bin_push(counted, dec_bin_stack_element(
                                                "FIELD", FALSE, 0, <<>>, 0))
                 IN IF is_optional
                    THEN IF ~optional_present THEN AssertFail(pushed)
                         ELSE LET b == dec_bin_decode_bool(pushed)
                              IN IF ~b.ok THEN b
                                 ELSE [b EXCEPT !.present = (b.ret[1] = 1),
                                                !.ret = <<label_id>>]
                    ELSE [pushed EXCEPT !.present = optional_present \/ @,
                                        !.ret = <<label_id>>]

dec_bin_decode_struct_field_end(d) ==
    IF ~dec_bin_top_in(d, {"FIELD"}) THEN Throw(d)
    ELSE [d EXCEPT !.stack = Pop(@)]

\* decode_array_begin and decode_dictionary_begin differ in the frame only
dec_bin_decode_counted_begin(d, element_type) ==
    IF dec_bin_top_in(d, {"STRUCT", "ARRAY", "DICTIONARY"}) THEN Throw(d)
    ELSE LET n == dec_bin_decode_size_indicator(d)
         IN IF ~n.ok THEN n
            ELSE [dec_bin_push(n, dec_bin_stack_element(element_type, FALSE, 0,
                                                        <<>>, n.ret[1]))
                  EXCEPT !.ret = <<0>>]

dec_bin_decode_array_begin(d) == dec_bin_decode_counted_begin(d, "ARRAY")

dec_bin_decode_array_end(d) ==
    IF d.stack = <<>> THEN Throw(d)
    ELSE LET cur_stack == Top(d.stack)
         IN IF cur_stack.type # "ARRAY" THEN Throw(d)
            ELSE IF cur_stack.field_pos # cur_stack.fields_count THEN Throw(d)
            ELSE [d EXCEPT !.stack = Pop(@)]

\* decode_array_element_begin that begins an element more than the count
dec_bin_decode_array_element_begin_one_more(d) ==
    IF d.stack = <<>> THEN Throw(d)
    ELSE LET cur_stack == Top(d.stack)
         IN IF cur_stack.type # "ARRAY" THEN Throw(d)
            ELSE IF cur_stack.field_pos > cur_stack.fields_count
            THEN [d EXCEPT !.ret = <<0>>]
            ELSE [dec_bin_push([d EXCEPT !.stack[Len(d.stack)].field_pos = @ + 1],
                               dec_bin_stack_element("ARRAY_ELEMENT", FALSE, 0, <<>>, 0))
                  EXCEPT !.ret = <<1>>]

dec_bin_decode_array_element_begin(d) ==
    IF d.stack = <<>> THEN Throw(d)
    ELSE LET cur_stack == Top(d.stack)
         IN IF cur_stack.type # "ARRAY" THEN Throw(d)
            ELSE IF cur_stack.field_pos >= cur_stack.fields_count
            THEN [d EXCEPT !.ret = <<0>>]
            ELSE [dec_bin_push([d EXCEPT !.stack[Len(d.stack)].field_pos = @ + 1],
                               dec_bin_stack_element("ARRAY_ELEMENT", FALSE, 0, <<>>, 0))
                  EXCEPT !.ret = <<1>>]

dec_bin_decode_array_element_end(d) ==
    IF ~dec_bin_top_in(d, {"ARRAY_ELEMENT"}) THEN Throw(d)
    ELSE [d EXCEPT !.stack = Pop(@)]

dec_bin_decode_dictionary_begin(d) == dec_bin_decode_counted_begin(d, "DICTIONARY")

dec_bin_decode_dictionary_end(d) ==
    IF d.stack = <<>> THEN Throw(d)
    ELSE LET cur_stack == Top(d.stack)
         IN IF cur_stack.type # "DICTIONARY" THEN Throw(d)
            ELSE IF cur_stack.field_pos # cur_stack.fields_count THEN Throw(d)
            ELSE [d EXCEPT !.stack = Pop(@)]

\* Returns <<0>> at the end of the dictionary, <<1>> \o key otherwise
dec_bin_decode_dictionary_element_begin(d) ==
    IF d.stack = <<>> THEN Throw(d)
    ELSE LET cur_stack == Top(d.stack)
         IN IF cur_stack.type # "DICTIONARY" THEN Throw(d)
            ELSE IF cur_stack.field_pos >= cur_stack.fields_count
            THEN [d EXCEPT !.ret = <<0>>]
            ELSE LET k == dec_bin_decode_string_utf8(
                              [d EXCEPT !.stack[Len(d.stack)].field_pos = @ + 1])
                 IN IF ~k.ok THEN k
                    ELSE [dec_bin_push(k, dec_bin_stack_element(
                                              "DICTIONARY_ELEMENT", FALSE, 0, <<>>, 0))
                          EXCEPT !.ret = <<1>> \o k.ret]

dec_bin_decode_dictionary_element_end(d) ==
    IF ~dec_bin_top_in(d, {"DICTIONARY_ELEMENT"}) THEN Throw(d)
    ELSE [d EXCEPT !.stack = Pop(@)]

dec_bin_decode_typed_begin(d, extensible) ==
    IF dec_bin_top_in(d, {"STRUCT", "ARRAY", "DICTIONARY"}) THEN Throw(d)
    ELSE LET t == dec_bin_decode_u32(d)
         IN IF ~t.ok THEN t
            ELSE LET type_id == t.ret[1]
                     l == IF extensible THEN dec_bin_decode_size_indicator(t)
                          ELSE [t EXCEPT !.ret = <<0>>]
                 IN IF ~l.ok THEN l
                    ELSE [dec_bin_push(l, dec_bin_stack_element(
                                              "TYPED", extensible, size_add(l.offset, l.ret[1]),
                                              <<>>, 0))
                          EXCEPT !.ret = <<type_id>>]

dec_bin_decode_typed_end_skip(d) ==
    IF d.stack = <<>> THEN Throw(d)
    ELSE LET cur_stack == Top(d.stack)
         IN IF cur_stack.type # "TYPED" THEN Throw(d)
            ELSE IF ~cur_stack.ext THEN Throw(d)
            ELSE LET s == IF d.offset < cur_stack.end_offset
                          THEN dec_bin_skip_bytes(d, cur_stack.end_offset - d.offset)
                          ELSE IF d.offset > cur_stack.end_offset THEN Throw(d)
                          ELSE d
                 IN IF ~s.ok THEN s ELSE [s EXCEPT !.stack = Pop(@)]

\* decode_typed_end closing the frame the way decode_struct_end does
dec_bin_decode_typed_end_as_struct_end(d) ==
    IF d.stack = <<>> THEN Throw(d)
    ELSE LET cur_stack == Top(d.stack)
         IN IF cur_stack.type # "TYPED" THEN Throw(d)
            ELSE LET s == IF cur_stack.ext /\ d.offset < cur_stack.end_offset
                          THEN dec_bin_skip_bytes(d, cur_stack.end_offset - d.offset)
                          ELSE IF cur_stack.ext /\ d.offset > cur_stack.end_offset
                          THEN Throw(d)
                          ELSE d
                 IN IF ~s.ok THEN s ELSE [s EXCEPT !.stack = Pop(@)]

dec_bin_decode_typed_end(d) ==
    IF d.stack = <<>> THEN Throw(d)
    ELSE LET cur_stack == Top(d.stack)
         IN IF cur_stack.type # "TYPED" THEN Throw(d)
            ELSE IF cur_stack.ext /\ cur_stack.end_offset # d.offset THEN Throw(d)
            ELSE [d EXCEPT !.stack = Pop(@)]

-----------------------------------------------------------------------------
(* json_encoder.hpp: JSON text is a sequence of character codes *)

\* The characters " \ / and the texts null, true, false, $type
CH_QUOTE == 34
CH_BACKSLASH == 92
TXT_null == <<110, 117, 108, 108>>
TXT_true == <<116, 114, 117, 101>>
TXT_false == <<102, 97, 108, 115, 101>>
TXT_typed_field == <<36, 116, 121, 112, 101>>

\* One digit in upper case (fmt writes upper case unless told otherwise)
fmt_digit(d) == IF d < 10 THEN 48 + d ELSE 55 + d

\* dastd::fmt(value, base, zero_pad): the digits of value >= 0, at least zero_pad
RECURSIVE fmt_digits(_, _, _)
fmt_digits(value, base, zero_pad) ==
    IF value < base /\ zero_pad <= 1 THEN <<fmt_digit(value)>>
    ELSE Append(fmt_digits(value \div base, base, zero_pad - 1), fmt_digit(value % base))

\* operator<< of an integer on the stream: decimal, with the sign
stream_integer(value) ==
    IF value < 0 THEN <<45>> \o fmt_digits(-value, 10, 0) ELSE fmt_digits(value, 10, 0)

\* json_encode_char: the text written, <<-1>> where the code asserts
json_encode_char(code_point) ==
    CASE code_point = 34 -> <<92, 34>>
      [] code_point = 92 -> <<92, 92>>
      [] code_point = 8 -> <<92, 98>>
      [] code_point = 12 -> <<92, 102>>
      [] code_point = 10 -> <<92, 110>>
      [] code_point = 13 -> <<92, 114>>
      [] code_point = 9 -> <<92, 116>>
      [] OTHER ->
           IF code_point >= 32 /\ code_point <= 126 THEN <<code_point>>
           ELSE IF code_point <= 55295 \/ (code_point >= 57344 /\ code_point <= 65535)
           THEN <<92, 117>> \o fmt_digits(code_point, 16, 4)
           ELSE IF code_point >= 65536 /\ code_point <= 1114111
           THEN LET cp == code_point - 65536
                IN <<92, 117>> \o fmt_digits(55296 + BINGET(cp, 10, 10), 16, 4)
                   \o <<92, 117>> \o fmt_digits(56320 + BINGET(cp, 0, 10), 16, 4)
           ELSE <<-1>>

RECURSIVE json_encode_string(_)
json_encode_string(string) ==
    IF string = <<>> THEN <<>>
    ELSE json_encode_char(Head(string)) \o json_encode_string(Tail(string))

\* json_encode_string_from_UTF8: [ok, text]; ok is the value returned, text
\* what has been written to the stream by then
RECURSIVE json_encode_string_from_UTF8(_)
json_encode_string_from_UTF8(str) ==
    IF str = <<>> THEN [ok |-> TRUE, text |-> <<>>]
    ELSE IF count_utf8_following_chars(str[1]) > Len(str)
    THEN [ok |-> FALSE, text |-> <<>>]
    ELSE LET r == read_utf8_asciiz(str)
             p == r[1]
         IN IF p = 0 THEN [ok |-> FALSE, text |-> <<>>]
            ELSE LET rest == json_encode_string_from_UTF8(SubSeq(str, p + 1, Len(str)))
                 IN [ok |-> rest.ok, text |-> json_encode_char(r[2]) \o rest.text]

-----------------------------------------------------------------------------
(* marshal_enc_json.hpp: the JSON encoder                                  *)
(* object: stack (frames [type, items]), out (the text written), is_typed, *)
(* type_id (m_is_typed, m_type_id), polymorphic_encoding, typed_field, ok  *)

enc_json_new(polymorphic_encoding) ==
    [stack |-> <<>>, out |-> <<>>, is_typed |-> FALSE, type_id |-> marshal_label(<<>>),
     polymorphic_encoding |-> polymorphic_encoding, typed_field |-> TXT_typed_field,
     ok |-> TRUE, aborted |-> FALSE]

\* m_out << text
enc_json_out(e, text) == [e EXCEPT !.out = @ \o text]

enc_json_push(e, type) == [e EXCEPT !.stack = Append(@, [type |-> type, items |-> 0])]

enc_json_top_in(e, types) == e.stack # <<>> /\ Top(e.stack).type \in types

\* m_stack.top().m_items_count++
enc_json_count(e) == [e EXCEPT !.stack[Len(e.stack)].items = @ + 1]

\* if (m_stack.top().m_items_count > 0) m_out << ','
enc_json_comma(e) == IF Top(e.stack).items > 0 THEN enc_json_out(e, <<44>>) ELSE e

enc_json_encode_bool(e, value) ==
    IF e.is_typed THEN AssertFail(e)
    ELSE enc_json_out(e, IF value THEN TXT_true ELSE TXT_false)

\* encode_u8 .. encode_i64
enc_json_encode_int(e, kind, value) ==
    IF e.is_typed THEN AssertFail(e) ELSE enc_json_out(e, stream_integer(value))

enc_json_encode_string_utf8(e, value) ==
    IF e.is_typed THEN AssertFail(e)
    ELSE LET r == json_encode_string_from_UTF8(value)
             written == enc_json_out(e, <<CH_QUOTE>> \o r.text)
         IN IF ~r.ok THEN Throw(written) ELSE enc_json_out(written, <<CH_QUOTE>>)

enc_json_encode_u32string(e, value) ==
    IF e.is_typed THEN AssertFail(e)
    ELSE LET text == json_encode_string(value)
         IN IF \E i \in 1..Len(text) : text[i] = -1 THEN AssertFail(e)
            ELSE enc_json_out(e, <<CH_QUOTE>> \o text \o <<CH_QUOTE>>)

enc_json_encode_struct_begin(e, extensible) ==
    IF enc_json_top_in(e, {"STRUCT", "ARRAY", "DICTIONARY"}) THEN AssertFail(e)
    ELSE LET opened == enc_json_out(enc_json_push(e, "STRUCT"), <<123>>)
         IN IF ~e.is_typed THEN opened
            ELSE LET untyped == enc_json_count([opened EXCEPT !.is_typed = FALSE])
                     tag == enc_json_encode_string_utf8(untyped, untyped.typed_field)
                 IN IF ~tag.ok THEN tag
                    ELSE enc_json_encode_string_utf8(enc_json_out(tag, <<58>>),
                                                     tag.type_id.text)

enc_json_encode_struct_end(e) ==
    IF ~enc_json_top_in(e, {"STRUCT"}) \/ e.is_typed THEN AssertFail(e)
    ELSE [enc_json_out(e, <<125>>) EXCEPT !.stack = Pop(@)]

\* encode_struct_field_begin that writes nothing after the colon of a missing
\* optional field
enc_json_encode_struct_field_begin_no_null(e, label, opt) ==
    IF e.is_typed \/ ~enc_json_top_in(e, {"STRUCT"}) THEN AssertFail(e)
    ELSE The({IF ~named.ok THEN named ELSE enc_json_out(named, <<58>>) :
              named \in {enc_json_encode_string_utf8(
                             enc_json_push(enc_json_count(enc_json_comma(e)), "FIELD"),
                             label.text)}})

enc_json_encode_struct_field_begin(e, label, opt) ==
    IF e.is_typed \/ ~enc_json_top_in(e, {"STRUCT"}) THEN AssertFail(e)
    ELSE The({IF ~named.ok THEN named
              ELSE enc_json_out(named, <<58>> \o (IF opt = "OPTIONAL_MISSING"
                                                 THEN TXT_null ELSE <<>>)) :
              named \in {enc_json_encode_string_utf8(
                             enc_json_push(enc_json_count(enc_json_comma(e)), "FIELD"),
                             label.text)}})

enc_json_encode_struct_field_end(e) ==
    IF e.is_typed \/ ~enc_json_top_in(e, {"FIELD"}) THEN AssertFail(e)
    ELSE [e EXCEPT !.stack = Pop(@)]

enc_json_encode_array_begin(e, count) ==
    IF e.is_typed \/ enc_json_top_in(e, {"STRUCT", "ARRAY", "DICTIONARY"})
    THEN AssertFail(e)
    ELSE enc_json_out(enc_json_push(e, "ARRAY"), <<91>>)

enc_json_encode_array_end(e) ==
    IF ~enc_json_top_in(e, {"ARRAY"}) \/ e.is_typed THEN AssertFail(e)
    ELSE [enc_json_out(e, <<93>>) EXCEPT !.stack = Pop(@)]

enc_json_encode_array_element_begin(e) ==
    IF ~enc_json_top_in(e, {"ARRAY"}) \/ e.is_typed THEN AssertFail(e)
    ELSE enc_json_push(enc_json_count(enc_json_comma(e)), "ARRAY_ELEMENT")

enc_json_encode_array_element_end(e) ==
    IF ~enc_json_top_in(e, {"ARRAY_ELEMENT"}) \/ e.is_typed THEN AssertFail(e)
    ELSE [e EXCEPT !.stack = Pop(@)]

enc_json_encode_dictionary_begin(e, count) ==
    IF e.is_typed \/ enc_json_top_in(e, {"STRUCT", "DICTIONARY", "DICTIONARY"})
    THEN AssertFail(e)
    ELSE enc_json_out(enc_json_push(e, "DICTIONARY"), <<123>>)

enc_json_encode_dictionary_end(e) ==
    IF ~enc_json_top_in(e, {"DICTIONARY"}) \/ e.is_typed THEN AssertFail(e)
    ELSE [enc_json_out(e, <<125>>) EXCEPT !.stack = Pop(@)]

enc_json_encode_dictionary_element_begin(e, key) ==
    IF ~enc_json_top_in(e, {"DICTIONARY"}) \/ e.is_typed THEN AssertFail(e)
    ELSE LET keyed == enc_json_encode_string_utf8(enc_json_comma(e), key)
         IN IF ~keyed.ok THEN keyed
            ELSE enc_json_push(enc_json_count(enc_json_out(keyed, <<58>>)),
                               "DICTIONARY_ELEMENT")

enc_json_encode_dictionary_element_end(e) ==
    IF ~enc_json_top_in(e, {"DICTIONARY_ELEMENT"}) \/ e.is_typed THEN AssertFail(e)
    ELSE [e EXCEPT !.stack = Pop(@)]

enc_json_encode_typed_begin(e, label, extensible) ==
    IF enc_json_top_in(e, {"STRUCT", "ARRAY", "DICTIONARY"}) \/ e.is_typed
    THEN AssertFail(e)
    ELSE IF e.polymorphic_encoding = "TYPEID_AS_FIELD_NAME"
    THEN LET named == enc_json_encode_string_utf8(enc_json_out(e, <<123>>), label.text)
         IN IF ~named.ok THEN named
            ELSE enc_json_push(enc_json_out(named, <<58>>), "TYPED")
    ELSE enc_json_push([e EXCEPT !.is_typed = TRUE, !.type_id = label], "TYPED")

enc_json_encode_typed_end(e) ==
    IF ~enc_json_top_in(e, {"TYPED"}) \/ e.is_typed THEN AssertFail(e)
    ELSE LET closed == IF e.polymorphic_encoding = "TYPEID_AS_FIELD_NAME"
                       THEN enc_json_out(e, <<125>>) ELSE e
         IN [closed EXCEPT !.stack = Pop(@)]

-----------------------------------------------------------------------------
(* utf16.hpp *)

detect_utf16_char(ch) ==
    IF ch \div 1024 = 54 THEN "utf16_FIRST"          \* (ch & 0xFC00) == 0xD800
    ELSE IF ch \div 1024 = 55 THEN "utf16_SECOND"    \* (ch & 0xFC00) == 0xDC00
    ELSE "utf16_NONE"

\* read_utf16_asciiz: <<number of char16_t read, code point>>
read_utf16_asciiz(utf16string) ==
    LET at(i) == IF i <= Len(utf16string) THEN utf16string[i] ELSE 0
    IN IF detect_utf16_char(at(1)) = "utf16_FIRST"
          /\ detect_utf16_char(at(2)) = "utf16_SECOND"
       THEN <<2, BINGET(at(1), 0, 10) * 1024 + BINGET(at(2), 0, 10) + 65536>>
       ELSE <<1, at(1)>>

-----------------------------------------------------------------------------
(* 64-bit integers: four limbs of 16 bits, the least significant first.    *)
(* The same limbs hold an int64_t (two's complement) or a uint64_t.        *)

\* The 64-bit value of n, n in 0 .. INT32_MAX
Word(n) == <<n % 65536, n \div 65536, 0, 0>>

WZero == <<0, 0, 0, 0>>

\* limbs * mul + add, exactly: one limb more than limbs has
RECURSIVE MulAdd(_, _, _)
MulAdd(limbs, mul, add) ==
    IF limbs = <<>> THEN <<add>>
    ELSE The({<<t % 65536>> \o MulAdd(Tail(limbs), mul, t \div 65536) :
              t \in {Head(limbs) * mul + add}})

\* The low 64 bits
Low64(limbs) == SubSeq(limbs, 1, 4)

WNot(w) == [i \in 1..4 |-> 65535 - w[i]]

\* -w modulo 2^64
WNeg(w) == Low64(MulAdd(WNot(w), 1, 1))

\* The sign bit
WNegative(w) == w[4] >= 32768

\* a < b as uint64_t, as int64_t
WULess(a, b) == \E i \in 1..4 : a[i] < b[i] /\ \A j \in (i + 1)..4 : a[j] = b[j]

WSLess(a, b) == IF WNegative(a) # WNegative(b) THEN WNegative(a) ELSE WULess(a, b)

\* The int64_t of the integer i, i within 32 bits
WordOfInt(i) == IF i >= 0 THEN Word(i) ELSE WNot(Word(-(i + 1)))

\* The int64_t w is within 32 bits
WFits32(w) == IF WNegative(w) THEN w[4] = 65535 /\ w[3] = 65535 /\ w[2] >= 32768
              ELSE w[4] = 0 /\ w[3] = 0 /\ w[2] < 32768

\* The integer of the int64_t w, w within 32 bits
IntOfWord(w) == IF WNegative(w) THEN -(WNot(w)[1] + 65536 * WNot(w)[2]) - 1
                ELSE w[1] + 65536 * w[2]

UINT64_MAX == <<65535, 65535, 65535, 65535>>
INT64_MAX == <<65535, 65535, 65535, 32767>>
INT64_MIN == <<0, 0, 0, 32768>>

\* std::numeric_limits<NUMTYPE>::lowest() and max(), as 64-bit values
NumMin(kind) == CASE kind = "i8" -> WordOfInt(-128)
                  [] kind = "i16" -> WordOfInt(-32768)
                  [] kind = "i32" -> WordOfInt(-INT32_MAX - 1)
                  [] kind = "i64" -> INT64_MIN
                  [] OTHER -> WZero
NumMax(kind) == CASE kind = "u8" -> Word(255) [] kind = "i8" -> Word(127)
                  [] kind = "u16" -> Word(65535) [] kind = "i16" -> Word(32767)
                  [] kind = "u32" -> <<65535, 65535, 0, 0>>
                  [] kind = "i32" -> Word(INT32_MAX)
                  [] kind = "u64" -> UINT64_MAX
                  [] kind = "i64" -> INT64_MAX

-----------------------------------------------------------------------------
(* strtointegral.hpp: conversion object [data, result, base, negative,     *)
(* state, valid]; valid is the value returned by the last convert_step.    *)
(* undefined: a signed multiplication or addition of add_char has          *)
(* overflowed, which is undefined behaviour; the fields then hold what a   *)
(* build with wrap-around arithmetic computes, and the caller of the       *)
(* program decides between that build and one that traps.                  *)

NOT_A_INTEGRAL_CHAR == 36

char_to_integral(ch) ==
    IF ch >= 48 /\ ch <= 57 THEN ch - 48
    ELSE IF ch >= 65 /\ ch <= 90 THEN ch - 65 + 10
    ELSE IF ch >= 97 /\ ch <= 122 THEN ch - 97 + 10
    ELSE NOT_A_INTEGRAL_CHAR

\* The exact magnitude exact of m_data * m_base -+ number is not an int64_t
SignedOverflow(negative, exact) ==
    \/ exact[5] # 0
    \/ IF negative
       THEN exact[4] > 32768
            \/ (exact[4] = 32768 /\ (exact[1] # 0 \/ exact[2] # 0 \/ exact[3] # 0))
       ELSE exact[4] >= 32768

\* add_char: tmp_data = m_data * m_base +- number in NUMTYPE, then the test
\* of tmp_data against m_data
strtointegral_add_char(s, ch, is_signed) ==
    LET number == char_to_integral(ch)
    IN IF ch = NOT_A_INTEGRAL_CHAR \/ number >= s.base
       THEN [s EXCEPT !.result = "INVALID_CHAR", !.valid = FALSE]
       ELSE The({The({
                IF IF s.negative THEN WSLess(s.data, tmp_data)
                   ELSE IF is_signed THEN WSLess(tmp_data, s.data)
                   ELSE WULess(tmp_data, s.data)
                THEN [s EXCEPT !.result = "VALUE_OUT_OF_RANGE", !.valid = FALSE,
                               !.undefined = @ \/ overflow]
                ELSE [s EXCEPT !.data = tmp_data, !.valid = TRUE,
                               !.undefined = @ \/ overflow]
                : tmp_data \in {IF s.negative THEN WNeg(Low64(exact)) ELSE Low64(exact)},
                  overflow \in {is_signed /\ SignedOverflow(s.negative, exact)}})
            : exact \in {MulAdd(IF s.negative THEN WNeg(s.data) ELSE s.data,
                                s.base, number)}})

\* convert_step; ch = 0 is end_of_string.  min_value and max_value are the
\* limits of NUMTYPE, which m_data cannot exceed.
strtointegral_convert_step(s0, ch0, is_signed) ==
    LET s == IF s0.state = 0 THEN [s0 EXCEPT !.state = IF s0.base = 0 THEN 1 ELSE 4]
             ELSE s0
        ch == IF ch0 \in {9, 10, 11, 12, 13} THEN 32 ELSE ch0
        ok(t) == [t EXCEPT !.valid = TRUE]
        decimal(t, st, base) ==
            strtointegral_add_char([t EXCEPT !.state = st, !.base = base], ch, is_signed)
        minus(t, st, unsigned_valid) ==
            IF is_signed THEN ok([t EXCEPT !.state = st, !.negative = TRUE])
            ELSE [t EXCEPT !.state = st, !.result = "INVALID_CHAR", !.valid = unsigned_valid]
    IN CASE s.state = 1 ->
              IF ch = 32 THEN ok(s)
              ELSE IF ch = 43 THEN ok([s EXCEPT !.state = 2])
              ELSE IF ch = 45 THEN minus(s, 2, TRUE)
              ELSE IF ch = 48 THEN ok([s EXCEPT !.state = 3])
              ELSE decimal(s, 6, 10)
         [] s.state = 2 ->
              IF ch = 48 THEN ok([s EXCEPT !.state = 3]) ELSE decimal(s, 6, 10)
         [] s.state = 3 ->
              IF ch \in {88, 120} THEN ok([s EXCEPT !.base = 16, !.state = 5])
              ELSE IF ch \in {66, 98} THEN ok([s EXCEPT !.base = 2, !.state = 5])
              ELSE IF ch = 0 THEN ok([s EXCEPT !.result = "VALID"])
              ELSE decimal(s, 6, 8)
         [] s.state = 4 ->
              IF ch = 32 THEN ok(s)
              ELSE IF ch = 43 THEN ok([s EXCEPT !.state = 5])
              ELSE IF ch = 45 THEN minus(s, 5, FALSE)
              ELSE decimal(s, 6, s.base)
         [] s.state = 5 -> decimal(s, 6, s.base)
         [] OTHER ->
              IF ch = 0 THEN ok([s EXCEPT !.result = "VALID"])
              ELSE strtointegral_add_char(s, ch, is_signed)

\* convert: the steps over the text, then end_of_string
RECURSIVE strtointegral_convert(_, _, _)
strtointegral_convert(s, str, is_signed) ==
    IF str = <<>> THEN strtointegral_convert_step(s, 0, is_signed)
    ELSE The({IF ~n.valid THEN n ELSE strtointegral_convert(n, Tail(str), is_signed) :
              n \in {strtointegral_convert_step(s, Head(str), is_signed)}})

\* strtointegral<NUMTYPE>(str) with base detection: <<value, valid>>, and
\* whether the conversion has met undefined behaviour
strtointegral(str, is_signed) ==
    The({IF s.result = "VALID" THEN <<s.data, TRUE, s.undefined>>
         ELSE <<WZero, FALSE, s.undefined>> :
         s \in {strtointegral_convert(
                    [data |-> WZero, result |-> "NOT_PROCESSED", base |-> 0,
                     negative |-> FALSE, state |-> 0, valid |-> TRUE,
                     undefined |-> FALSE],
                    str, is_signed)}})

-----------------------------------------------------------------------------
(* multinum.hpp: the number [level, integral, double]: integral is the     *)
(* union m_value_integral; double is m_value_double as far as the model    *)
(* knows it: [ok, whole, value], whole when it is a whole number within    *)
(* 32 bits, value that number.  undefined: the parsing has met undefined   *)
(* behaviour in strtointegral<int64_t>.                                    *)

multinum_clear ==
    [level |-> "INVALID", integral |-> WZero,
     double |-> [ok |-> TRUE, whole |-> TRUE, value |-> 0], undefined |-> FALSE]

IsDigit(ch) == ch >= 48 /\ ch <= 57

\* First position from i on that holds no digit
RECURSIVE DigitsEnd(_, _)
DigitsEnd(text, i) ==
    IF i <= Len(text) /\ IsDigit(text[i]) THEN DigitsEnd(text, i + 1) ELSE i

\* Value of a run of decimal digits, INT32_MAX + 1 digits being out of reach:
\* -1 when it does not fit 32 bits
RECURSIVE DigitsValue(_, _)
DigitsValue(digits, acc) ==
    IF digits = <<>> THEN acc
    ELSE IF acc = -1 \/ acc > (INT32_MAX - (Head(digits) - 48)) \div 10 THEN -1
    ELSE DigitsValue(Tail(digits), acc * 10 + (Head(digits) - 48))

CharAt(text, i) == IF i <= Len(text) THEN text[i] ELSE 0

\* The double read with the mantissa digits mant (integer and fraction
\* digits together, frac_len of them behind the point) and the exponent exp
stod_value(negative, digits, mant, frac_len, exp, exp_fits) ==
    LET scale == exp - frac_len
        fits(m, k) == k <= 9 /\ m <= INT32_MAX \div Pow(10, k)
        whole == /\ mant # -1 /\ exp_fits
                 /\ IF mant = 0 THEN TRUE
                    ELSE IF scale >= 0 THEN fits(mant, scale)
                    ELSE -scale <= 9 /\ mant % Pow(10, -scale) = 0
        magnitude == IF mant = 0 \/ ~whole THEN 0
                     ELSE IF scale >= 0 THEN mant * Pow(10, scale)
                     ELSE mant \div Pow(10, -scale)
    IN [ok |-> digits > 0, whole |-> whole,
        value |-> IF negative THEN -magnitude ELSE magnitude]

\* The text from s0 on: integer digits up to i1, fraction digits up to i2,
\* exponent digits from e0 up to e1
stod_parts(text, s0, i1, i2, e0, e1) ==
    LET frac == IF CharAt(text, i1) = 46 THEN SubSeq(text, i1 + 1, i2 - 1) ELSE <<>>
        has_exp == CharAt(text, i2) \in {69, 101} /\ e1 > e0
    IN The({stod_value(CharAt(text, 1) = 45, (i1 - s0) + Len(frac), mant, Len(frac),
                       IF CharAt(text, i2 + 1) = 45 THEN -exp_abs ELSE exp_abs,
                       exp_abs # -1) :
            mant \in {DigitsValue(SubSeq(text, s0, i1 - 1) \o frac, 0)},
            exp_abs \in {IF has_exp THEN DigitsValue(SubSeq(text, e0, e1 - 1), 0)
                         ELSE 0}})

\* The whole value of a run of hexadecimal digits, -1 when it does not fit
\* 32 bits
RECURSIVE HexEnd(_, _)
HexEnd(text, i) ==
    IF char_to_integral(CharAt(text, i)) < 16 THEN HexEnd(text, i + 1) ELSE i

RECURSIVE HexValue(_, _)
HexValue(digits, acc) ==
    IF digits = <<>> THEN acc
    ELSE IF acc = -1 \/ acc > (INT32_MAX - char_to_integral(Head(digits))) \div 16
    THEN -1
    ELSE HexValue(Tail(digits), acc * 16 + char_to_integral(Head(digits)))

\* The double read from 0x and hexadecimal digits, from s0 on; a point or a
\* binary exponent behind the digits is not among the texts explored
stod_hex(text, s0) ==
    The({[ok |-> TRUE, whole |-> v # -1,
          value |-> IF v = -1 THEN 0 ELSE IF CharAt(text, 1) = 45 THEN -v ELSE v] :
         v \in {HexValue(SubSeq(text, s0 + 2, HexEnd(text, s0 + 2) - 1), 0)}})

\* std::stod on a text: [ok, whole, value]: ok when a number has been read
\* at the head of the text, whole when it is a whole number within the
\* 32 bits that set_double accepts, value that whole number
stod(text) ==
    The({IF CharAt(text, s0) = 48 /\ CharAt(text, s0 + 1) \in {88, 120}
            /\ char_to_integral(CharAt(text, s0 + 2)) < 16
         THEN stod_hex(text, s0)
         ELSE The({The({The({The({
                  stod_parts(text, s0, i1, i2, e0, e1)
                  : e1 \in {DigitsEnd(text, e0)}})
                  : e0 \in {IF CharAt(text, i2 + 1) \in {43, 45} THEN i2 + 2
                            ELSE i2 + 1}})
                  : i2 \in {IF CharAt(text, i1) = 46 THEN DigitsEnd(text, i1 + 1)
                            ELSE i1}})
                  : i1 \in {DigitsEnd(text, s0)}})
         : s0 \in {IF CharAt(text, 1) \in {43, 45} THEN 2 ELSE 1}})

\* set_double
multinum_set_double(m, d) ==
    IF d.whole
    THEN [m EXCEPT !.double = d, !.level = "INT64", !.integral = WordOfInt(d.value)]
    ELSE [m EXCEPT !.double = d, !.level = "DOUBLE_ONLY"]

\* (double)val of the 64-bit integer val
DoubleOf(val, is_signed) ==
    IF WFits32(val) /\ (is_signed \/ ~WNegative(val))
    THEN [ok |-> TRUE, whole |-> TRUE, value |-> IntOfWord(val)]
    ELSE [ok |-> TRUE, whole |-> FALSE, value |-> 0]

\* set<NUMTYPE>(val) of an integral NUMTYPE, val as a 64-bit value
multinum_set(m, kind, val) ==
    IF kind # "u64" \/ ~WNegative(val)
    THEN [m EXCEPT !.integral = val, !.double = DoubleOf(val, kind # "u64"),
                   !.level = "INT64"]
    ELSE [m EXCEPT !.integral = val, !.double = DoubleOf(val, FALSE),
                   !.level = "UINT64"]

RECURSIVE trim_leading_spaces(_)
trim_leading_spaces(text) ==
    IF text # <<>> /\ Head(text) = 32 THEN trim_leading_spaces(Tail(text)) ELSE text

RECURSIVE trim_trailing_spaces(_)
trim_trailing_spaces(text) ==
    IF text # <<>> /\ Last(text) = 32
    THEN trim_trailing_spaces(SubSeq(text, 1, Len(text) - 1)) ELSE text

multinum_internal_parse(text0) ==
    The({The({
        IF ~d.ok THEN multinum_clear
        ELSE IF pair_i64[2]
        THEN [level |-> "INT64", integral |-> pair_i64[1], double |-> d,
              undefined |-> pair_i64[3]]
        ELSE IF text[1] # 45 /\ pair_u64[2]
        THEN [level |-> "UINT64", integral |-> pair_u64[1], double |-> d,
              undefined |-> pair_i64[3]]
        ELSE multinum_set_double([multinum_clear EXCEPT !.undefined = pair_i64[3]], d)
        : d \in {stod(text)},
          pair_i64 \in {strtointegral(text, TRUE)},
          pair_u64 \in {strtointegral(text, FALSE)}})
        : text \in {trim_trailing_spaces(trim_leading_spaces(text0))}})

\* multinum::parse(str)
multinum_parse(str) ==
    IF \E i \in 1..Len(str) : str[i] < 32 \/ str[i] > 126 THEN multinum_clear
    ELSE multinum_internal_parse(str)

multinum_valid(m) == m.level # "INVALID"

\* multinum::get<NUMTYPE>(min_value, max_value) of an integral NUMTYPE:
\* <<value, valid>>, the limits and the value as 64-bit values
multinum_get(m, kind, min_value, max_value) ==
    LET invalid == <<WZero, FALSE>>
    IN IF m.level = "UINT64"
       THEN IF kind # "u64" THEN invalid
            ELSE IF WULess(m.integral, min_value) \/ WULess(max_value, m.integral)
            THEN invalid
            ELSE <<m.integral, TRUE>>
       ELSE IF m.level = "INT64"
       THEN IF kind = "u64"
            \* i64 < (int64_t)min_value, (uint64_t)i64 > max_value
            THEN IF WSLess(m.integral, min_value) THEN invalid
                 ELSE IF WULess(max_value, m.integral) THEN invalid
                 ELSE <<m.integral, TRUE>>
            \* i64 < (int64_t)min_value || i64 > (int64_t)max_value
            ELSE IF WSLess(m.integral, min_value) \/ WSLess(max_value, m.integral)
            THEN invalid
            ELSE <<m.integral, TRUE>>
       ELSE invalid

-----------------------------------------------------------------------------
(* json_tokenizer.hpp: json_tokenizer_sourced over the text src, of which  *)
(* pos characters have been read.  The tokenizer runs with flags = 0, so   *)
(* m_string_can_converted_to_number stays false; m_raw_token only serves   *)
(* error messages.  ok = FALSE once an assert() of the tokenizer failed.   *)

Ret(t, r) == [t EXCEPT !.last_process_ret = r]

Aborted(t) == Ret([t EXCEPT !.state = "ABORTED_DUE_TO_ERROR"], "C_ERROR")

is_valid_keyword_char(ch32) ==
    \/ ch32 >= 97 /\ ch32 <= 122
    \/ ch32 >= 65 /\ ch32 <= 90
    \/ ch32 >= 48 /\ ch32 <= 57
    \/ ch32 \in {95, 45, 46}

\* clear()
json_tokenizer_clear(t) == [t EXCEPT !.string = <<>>, !.multinum = multinum_clear]

add_char_to_string(t, ch32) ==
    LET n == Len(t.string)
        prev == t.string[n]
    IN IF /\ n > 0 /\ ch32 < 65536 /\ detect_utf16_char(ch32) = "utf16_SECOND"
          /\ prev < 65536 /\ detect_utf16_char(prev) = "utf16_FIRST"
          /\ read_utf16_asciiz(<<prev, ch32>>)[1] = 2
       THEN [t EXCEPT !.string[n] = read_utf16_asciiz(<<prev, ch32>>)[2]]
       ELSE [t EXCEPT !.string = Append(@, ch32)]

process_char_string(t, ch32_curr) ==
    IF ch32_curr = CH32_EOF THEN Aborted(t)
    ELSE CASE t.sub_state = "NORMAL" ->
                IF ch32_curr = 34 THEN Ret([t EXCEPT !.state = "IDLING"], "C_STRING")
                ELSE IF ch32_curr = 92
                THEN Ret([t EXCEPT !.sub_state = "IN_STRING_AFTER_BACKSLASH"],
                         "C_NEED_MORE_CHARS")
                ELSE Ret(add_char_to_string(t, ch32_curr), "C_NEED_MORE_CHARS")
           [] t.sub_state = "IN_STRING_AFTER_BACKSLASH" ->
                IF ch32_curr = 117
                THEN Ret([t EXCEPT !.escaped_char = 0, !.escaped_char_remaining = 4,
                                   !.sub_state = "IN_STRING_READING_HEX_CHARS"],
                         "C_NEED_MORE_CHARS")
                ELSE LET ch == CASE ch32_curr = 98 -> 8 [] ch32_curr = 102 -> 12
                                 [] ch32_curr = 110 -> 10 [] ch32_curr = 114 -> 13
                                 [] ch32_curr = 116 -> 9 [] OTHER -> ch32_curr
                     IN Ret([add_char_to_string(t, ch) EXCEPT !.sub_state = "NORMAL"],
                            "C_NEED_MORE_CHARS")
           [] t.sub_state = "IN_STRING_READING_HEX_CHARS" ->
                IF t.escaped_char_remaining <= 0 THEN Ret([t EXCEPT !.ok = FALSE], "C_ERROR")
                ELSE IF char_to_integral(ch32_curr) >= 16 THEN Aborted(t)
                ELSE LET escaped == t.escaped_char * 16 + char_to_integral(ch32_curr)
                         hex == [t EXCEPT !.escaped_char = escaped,
                                          !.escaped_char_remaining = @ - 1]
                     IN IF hex.escaped_char_remaining = 0
                        THEN Ret([add_char_to_string(hex, escaped)
                                     EXCEPT !.sub_state = "NORMAL"], "C_NEED_MORE_CHARS")
                        ELSE Ret(hex, "C_NEED_MORE_CHARS")
           [] OTHER -> Ret([t EXCEPT !.ok = FALSE], "C_ERROR")

process_char_comment(t, ch32_curr) ==
    CASE t.sub_state = "IN_COMMENT_SLASHSTAR_DISCARD_FIRST_STAR" ->
           IF ch32_curr # 42 THEN Ret([t EXCEPT !.ok = FALSE], "C_ERROR")
           ELSE Ret([t EXCEPT !.sub_state = "IN_COMMENT_SLASHSTAR_INSIDE"],
                    "C_NEED_MORE_CHARS")
      [] t.sub_state = "IN_COMMENT_SLASHSTAR_INSIDE" ->
           IF ch32_curr = CH32_EOF THEN Aborted(t)
           ELSE IF ch32_curr = 42
           THEN Ret([t EXCEPT !.sub_state =
                                 "IN_COMMENT_SLASHSTAR_MATCHED_POTENTIAL_CLOSING_STAR"],
                    "C_NEED_MORE_CHARS")
           ELSE Ret(t, "C_NEED_MORE_CHARS")
      [] t.sub_state = "IN_COMMENT_SLASHSTAR_MATCHED_POTENTIAL_CLOSING_STAR" ->
           IF ch32_curr = CH32_EOF THEN Aborted(t)
           ELSE IF ch32_curr = 47
           THEN Ret([t EXCEPT !.sub_state = "NORMAL", !.state = "IDLING"], "C_SPACE")
           ELSE Ret(t, "C_NEED_MORE_CHARS")
      [] t.sub_state = "IN_COMMENT_SLASHSLASH" ->
           IF ch32_curr \in {13, 10, CH32_EOF}
           THEN Ret([t EXCEPT !.state = "IDLING"], "C_SPACE")
           ELSE Ret(t, "C_NEED_MORE_CHARS")
      [] OTHER -> Ret([t EXCEPT !.ok = FALSE], "C_ERROR")

process_char_keyword(t, ch32_curr, ch32_next) ==
    IF ~is_valid_keyword_char(ch32_curr) THEN Ret([t EXCEPT !.ok = FALSE], "C_ERROR")
    ELSE LET pushed == [t EXCEPT !.string = Append(@, ch32_curr)]
         IN IF is_valid_keyword_char(ch32_next) THEN Ret(pushed, "C_NEED_MORE_CHARS")
            ELSE Ret([pushed EXCEPT !.state = "IDLING"],
                     IF pushed.string = TXT_null THEN "C_NULL"
                     ELSE IF pushed.string = TXT_true THEN "C_TRUE"
                     ELSE IF pushed.string = TXT_false THEN "C_FALSE"
                     ELSE "C_STRING")

json_tokenizer_numeric_ch(ch32) ==
    CASE ch32 = 45 -> 1
      [] ch32 = 43 -> 2
      [] ch32 = 46 -> 3
      [] ch32 \in {101, 69} -> 4
      [] OTHER -> IF ch32 >= 48 /\ ch32 <= 57 THEN 5 ELSE 0

\* The two marks of state_map: _ (not supported) and X (terminate)
STATE_NOT_SUPPORTED == 255
STATE_TERMINATE == 254

\* state_map[state][event], events in the order ? - + . E 0-9
state_map ==
    LET u == STATE_NOT_SUPPORTED
        X == STATE_TERMINATE
    IN << <<u, 1, u, u, u, 2>>,
          <<u, u, u, u, u, 2>>,
          <<X, u, u, 3, 5, 2>>,
          <<u, u, u, u, u, 4>>,
          <<X, u, u, u, 5, 4>>,
          <<u, 6, 6, u, u, 7>>,
          <<u, u, u, u, u, 7>>,
          <<X, u, u, u, u, 7>> >>

process_char_number(t, ch32_curr, ch32_next) ==
    LET ev_curr == json_tokenizer_numeric_ch(ch32_curr)
        ev_next == json_tokenizer_numeric_ch(ch32_next)
        now == state_map[t.numeric_parser_state + 1][ev_curr + 1]
    IN IF now \in {STATE_NOT_SUPPORTED, STATE_TERMINATE}
       THEN Ret([t EXCEPT !.ok = FALSE], "C_ERROR")
       ELSE LET pushed == [t EXCEPT !.numeric_parser_state = now,
                                    !.string = Append(@, ch32_curr)]
                future_state == state_map[now + 1][ev_next + 1]
            IN IF future_state = STATE_NOT_SUPPORTED THEN Aborted(pushed)
               ELSE IF future_state = STATE_TERMINATE
               THEN The({IF ~multinum_valid(parsed.multinum) THEN Aborted(parsed)
                         ELSE Ret(parsed, "C_NUMBER") :
                         parsed \in {[pushed EXCEPT !.state = "IDLING",
                                         !.multinum = multinum_parse(pushed.string)]}})
               ELSE Ret(pushed, "C_NEED_MORE_CHARS")

process_char_internal(t, ch32_curr, ch32_next) ==
    CASE t.state = "IDLING" ->
          (LET s == [t EXCEPT !.string = <<>>]
           IN CASE ch32_curr = 123 -> Ret(s, "C_BRACE_OPEN")
                [] ch32_curr = 125 -> Ret(s, "C_BRACE_CLOSE")
                [] ch32_curr = 91 -> Ret(s, "C_BRACKET_OPEN")
                [] ch32_curr = 93 -> Ret(s, "C_BRACKET_CLOSE")
                [] ch32_curr = 44 -> Ret(s, "C_COMMA")
                [] ch32_curr = 58 -> Ret(s, "C_COLON")
                [] ch32_curr \in {32, 13, 10, 9} -> Ret(s, "C_SPACE")
                [] ch32_curr = 35 ->
                     Ret([s EXCEPT !.state = "IN_COMMENT",
                                   !.sub_state = "IN_COMMENT_SLASHSLASH"],
                         "C_NEED_MORE_CHARS")
                [] ch32_curr = 47 ->
                     IF ch32_next = 42
                     THEN Ret([s EXCEPT !.state = "IN_COMMENT",
                                        !.sub_state = "IN_COMMENT_SLASHSTAR_DISCARD_FIRST_STAR"],
                              "C_NEED_MORE_CHARS")
                     ELSE IF ch32_next = 47
                     THEN Ret([s EXCEPT !.state = "IN_COMMENT",
                                        !.sub_state = "IN_COMMENT_SLASHSLASH"],
                              "C_NEED_MORE_CHARS")
                     ELSE Aborted(s)
                [] ch32_curr = 34 ->
                     Ret([s EXCEPT !.state = "IN_STRING", !.sub_state = "NORMAL"],
                         "C_NEED_MORE_CHARS")
                [] OTHER ->
                     IF (ch32_curr >= 48 /\ ch32_curr <= 57) \/ ch32_curr = 45
                     THEN process_char_number(
                              [s EXCEPT !.state = "IN_NUMBER", !.sub_state = "NORMAL",
                                        !.numeric_parser_state = 0], ch32_curr, ch32_next)
                     ELSE IF is_valid_keyword_char(ch32_curr)
                     THEN process_char_keyword(
                              [s EXCEPT !.state = "IN_KEYWORD", !.sub_state = "NORMAL"],
                              ch32_curr, ch32_next)
                     ELSE Aborted(s))
      [] t.state = "IN_STRING" -> process_char_string(t, ch32_curr)
      [] t.state = "IN_COMMENT" -> process_char_comment(t, ch32_curr)
      [] t.state = "IN_KEYWORD" -> process_char_keyword(t, ch32_curr, ch32_next)
      [] t.state = "IN_NUMBER" -> process_char_number(t, ch32_curr, ch32_next)
      [] t.state = "REACHED_EOF" -> Ret(t, "C_NOTHING_MORE")
      [] OTHER -> Ret(t, "C_ERROR")

internal_process_char(t, ch) ==
    IF t.state = "REACHED_EOF" THEN Ret(t, "C_NOTHING_MORE")
    ELSE LET cleared == IF t.state = "IDLING" THEN json_tokenizer_clear(t) ELSE t
         IN [process_char_internal(cleared, t.prev_char, ch) EXCEPT !.prev_char = ch]

internal_process_eof(t) ==
    IF t.state = "REACHED_EOF" THEN Ret(t, "C_NOTHING_MORE")
    ELSE LET cleared == IF t.state = "IDLING" THEN json_tokenizer_clear(t) ELSE t
         IN [process_char_internal(cleared, t.prev_char, CH32_EOF)
                EXCEPT !.state = "REACHED_EOF"]

\* json_tokenizer(first_char, 0): the tokenizer fed character by character
json_tokenizer(first_char) ==
    [state |-> "IDLING", sub_state |-> "NORMAL", numeric_parser_state |-> 0,
     escaped_char |-> 0, escaped_char_remaining |-> 0, prev_char |-> first_char,
     last_process_ret |-> "C_NEED_MORE_CHARS", string |-> <<>>,
     multinum |-> multinum_clear, src |-> <<>>, pos |-> 0, ok |-> TRUE]

\* json_tokenizer_sourced(source): the first character is peeked
json_tokenizer_sourced(src) ==
    LET t == [json_tokenizer(0) EXCEPT !.src = src]
    IN IF src # <<>> THEN [t EXCEPT !.prev_char = src[1]] ELSE internal_process_eof(t)

\* fetch_token: read one character, peek the next, until a token is there
RECURSIVE json_tokenizer_fetch_token(_)
json_tokenizer_fetch_token(t) ==
    The({The({
        IF step.last_process_ret \in {"C_NEED_MORE_CHARS", "C_SPACE"}
        THEN json_tokenizer_fetch_token(step)
        ELSE step
        : step \in {IF read.pos < Len(read.src)
                    THEN internal_process_char(read, read.src[read.pos + 1])
                    ELSE internal_process_eof(read)}})
        : read \in {IF t.pos < Len(t.src) THEN [t EXCEPT !.pos = @ + 1] ELSE t}})

-----------------------------------------------------------------------------
(* marshal_dec_json.hpp: the JSON decoder                                  *)
(* object: stack (frames [type, items]), tokenizer (m_tokenizer with its   *)
(* source), resubmit_prev_token, polymorphic_encoding, typed_field,        *)
(* is_typed, ok, ret and present as in the binary decoder.  m_fields_map   *)
(* only serves error messages.                                             *)

dec_json_new(source, polymorphic_encoding) ==
    [stack |-> <<>>, tokenizer |-> json_tokenizer_sourced(source),
     resubmit_prev_token |-> FALSE, polymorphic_encoding |-> polymorphic_encoding,
     typed_field |-> TXT_typed_field, is_typed |-> FALSE, ok |-> TRUE,
     aborted |-> FALSE, ret |-> <<>>, present |-> FALSE]

dec_json_resubmit_prev_token(d) ==
    IF d.resubmit_prev_token THEN AssertFail(d)
    ELSE [d EXCEPT !.resubmit_prev_token = TRUE]

\* fetch_token that returns the token put back and leaves the slot set
dec_json_fetch_token_keeping(d) ==
    IF d.resubmit_prev_token THEN d
    ELSE The({[d EXCEPT !.tokenizer = t, !.ok = @ /\ t.ok, !.aborted = @ \/ ~t.ok] :
              t \in {json_tokenizer_fetch_token(d.tokenizer)}})

dec_json_fetch_token(d) ==
    IF d.resubmit_prev_token THEN [d EXCEPT !.resubmit_prev_token = FALSE]
    ELSE The({[d EXCEPT !.tokenizer = t, !.ok = @ /\ t.ok, !.aborted = @ \/ ~t.ok] :
              t \in {json_tokenizer_fetch_token(d.tokenizer)}})

\* m_tokenizer.get_last_process_ret(), get_string()
dec_json_token(d) == d.tokenizer.last_process_ret

dec_json_string(d) == d.tokenizer.string

dec_json_push(d, type) == [d EXCEPT !.stack = Append(@, [type |-> type, items |-> 0])]

dec_json_top_in(d, types) == d.stack # <<>> /\ Top(d.stack).type \in types

dec_json_return(d, ret) == [d EXCEPT !.ret = ret]

\* m_stack.top().m_items++
dec_json_count(d) == [d EXCEPT !.stack[Len(d.stack)].items = @ + 1]

dec_json_decode_bool(d) ==
    IF d.is_typed THEN AssertFail(d)
    ELSE The({IF dec_json_token(f) = "C_TRUE" THEN dec_json_return(f, <<1>>)
              ELSE IF dec_json_token(f) = "C_FALSE" THEN dec_json_return(f, <<0>>)
              ELSE Throw(f) :
              f \in {dec_json_fetch_token(d)}})

\* decode_u8 .. decode_i64
dec_json_decode_int(d, kind) ==
    IF d.is_typed THEN AssertFail(d)
    ELSE The({The({IF ~pair[2] THEN Throw(f)
                   ELSE dec_json_return(f, <<IntOfWord(pair[1])>>) :
                   pair \in {multinum_get(f.tokenizer.multinum, kind,
                                          NumMin(kind), NumMax(kind))}}) :
              f \in {dec_json_fetch_token(d)}})

dec_json_decode_string_utf8(d) ==
    IF d.is_typed THEN AssertFail(d)
    ELSE The({IF dec_json_token(f) # "C_STRING" THEN Throw(f)
              ELSE dec_json_return(f, write_utf8(dec_json_string(f))) :
              f \in {dec_json_fetch_token(d)}})

dec_json_decode_u32string(d) ==
    IF d.is_typed THEN AssertFail(d)
    ELSE The({IF dec_json_token(f) # "C_STRING" THEN Throw(f)
              ELSE dec_json_return(f, dec_json_string(f)) :
              f \in {dec_json_fetch_token(d)}})

\* skip_substructure: stk is the local stack of open brackets
RECURSIVE dec_json_skip_substructure_loop(_, _)
dec_json_skip_substructure_loop(d, stk) ==
    The({LET r == dec_json_token(f)
             open == IF r \in {"C_BRACKET_OPEN", "C_BRACKET_CLOSE"} THEN 91 ELSE 123
         IN IF r \in {"C_NOTHING_MORE", "C_ERROR"} THEN f
            ELSE IF r \in {"C_BRACKET_CLOSE", "C_BRACE_CLOSE"}
                    /\ (stk = <<>> \/ Top(stk) # open)
            THEN f
            ELSE dec_json_skip_substructure_loop(
                     f, IF r \in {"C_BRACKET_OPEN", "C_BRACE_OPEN"} THEN Append(stk, open)
                        ELSE IF r \in {"C_BRACKET_CLOSE", "C_BRACE_CLOSE"} THEN Pop(stk)
                        ELSE stk) :
         f \in {dec_json_fetch_token(d)}})

dec_json_skip_substructure(d) == dec_json_skip_substructure_loop(d, <<>>)

dec_json_decode_struct_begin(d, extensible, field_infos) ==
    IF d.is_typed THEN [d EXCEPT !.is_typed = FALSE]
    ELSE IF dec_json_top_in(d, {"STRUCT", "ARRAY", "DICTIONARY"}) THEN Throw(d)
    ELSE The({IF dec_json_token(f) # "C_BRACE_OPEN" THEN Throw(f)
              ELSE dec_json_push(f, "STRUCT") :
              f \in {dec_json_fetch_token(d)}})

dec_json_decode_struct_end(d) ==
    IF d.is_typed THEN AssertFail(d)
    ELSE IF ~dec_json_top_in(d, {"STRUCT"}) THEN Throw(d)
    ELSE The({IF dec_json_token(f) # "C_BRACE_CLOSE" THEN Throw(f)
              ELSE [f EXCEPT !.stack = Pop(@)] :
              f \in {dec_json_skip_substructure(d)}})

\* A name follows: a C_STRING token that is not empty
dec_json_is_name(d) == dec_json_token(d) = "C_STRING" /\ Len(dec_json_string(d)) # 0

\* The comma before an item that is not the first, then the name of the item
\* and the colon; the decoder stays on the token that is not as expected
dec_json_name_colon(d, f1) ==
    IF Top(d.stack).items # 0 /\ dec_json_token(f1) # "C_COMMA" THEN Throw(f1)
    ELSE The({IF ~dec_json_is_name(f2) THEN Throw(f2)
              ELSE The({IF dec_json_token(f3) # "C_COLON" THEN Throw(f3)
                        ELSE [f3 EXCEPT !.ret = dec_json_string(f2)] :
                        f3 \in {dec_json_fetch_token(f2)}}) :
              f2 \in {dec_json_count(IF Top(d.stack).items = 0 THEN f1
                                     ELSE dec_json_fetch_token(f1))}})

\* decode_struct_field_begin(optional_present): ret is the label id;
\* optional_present: the caller passes a pointer to its flag (not nullptr)
dec_json_decode_struct_field_begin(d, optional_present) ==
    IF d.is_typed THEN AssertFail(d)
    ELSE IF ~dec_json_top_in(d, {"STRUCT"}) THEN Throw(d)
    ELSE The({
        IF dec_json_token(f1) = "C_BRACE_CLOSE"
        THEN dec_json_return(dec_json_resubmit_prev_token(f1),
                             <<marshal_label_id_INVALID>>)
        ELSE The({
            IF ~f3.ok THEN f3
            ELSE IF ~optional_present
            THEN dec_json_return(dec_json_push(f3, "FIELD"),
                                 <<crc32(write_utf8(f3.ret))>>)
            ELSE The({
                IF dec_json_token(f4) = "C_NULL"
                THEN dec_json_return([f4 EXCEPT !.present = FALSE],
                                     <<crc32(write_utf8(f3.ret))>>)
                ELSE dec_json_return(
                         dec_json_resubmit_prev_token([f4 EXCEPT !.present = TRUE]),
                         <<crc32(write_utf8(f3.ret))>>)
                : f4 \in {dec_json_fetch_token(dec_json_push(f3, "FIELD"))}})
            : f3 \in {dec_json_name_colon(d, f1)}})
        : f1 \in {dec_json_fetch_token(d)}})

dec_json_decode_struct_field_end(d) ==
    IF d.is_typed THEN AssertFail(d)
    ELSE IF ~dec_json_top_in(d, {"FIELD"}) THEN Throw(d)
    ELSE [d EXCEPT !.stack = Pop(@)]

\* decode_array_begin, decode_dictionary_begin: open is the token expected
dec_json_decode_counted_begin(d, element_type, open) ==
    IF d.is_typed THEN AssertFail(d)
    ELSE IF dec_json_top_in(d, {"STRUCT", "ARRAY", "DICTIONARY"}) THEN Throw(d)
    ELSE The({IF dec_json_token(f) # open THEN Throw(f)
              ELSE dec_json_return(dec_json_push(f, element_type),
                                   <<marshal_array_SIZE_UNKNOWN>>) :
              f \in {dec_json_fetch_token(d)}})

dec_json_decode_array_begin(d) ==
    dec_json_decode_counted_begin(d, "ARRAY", "C_BRACKET_OPEN")

\* decode_array_end, decode_dictionary_end
dec_json_decode_counted_end(d, element_type) ==
    IF d.is_typed THEN AssertFail(d)
    ELSE IF ~dec_json_top_in(d, {element_type}) THEN Throw(d)
    ELSE [d EXCEPT !.stack = Pop(@)]

dec_json_decode_array_end(d) == dec_json_decode_counted_end(d, "ARRAY")

\* decode_array_element_begin with the first token of the first element
\* consumed instead of put back
dec_json_decode_array_element_begin_consuming(d) ==
    IF d.is_typed THEN AssertFail(d)
    ELSE IF ~dec_json_top_in(d, {"ARRAY"}) THEN Throw(d)
    ELSE The({LET first == Top(d.stack).items = 0
              IN IF dec_json_token(f) = "C_BRACKET_CLOSE" THEN dec_json_return(f, <<0>>)
                 ELSE IF ~first /\ dec_json_token(f) # "C_COMMA" THEN Throw(f)
                 ELSE dec_json_return(
                          dec_json_push(dec_json_count(f), "ARRAY_ELEMENT"), <<1>>) :
              f \in {dec_json_fetch_token(d)}})

dec_json_decode_array_element_begin(d) ==
    IF d.is_typed THEN AssertFail(d)
    ELSE IF ~dec_json_top_in(d, {"ARRAY"}) THEN Throw(d)
    ELSE The({LET first == Top(d.stack).items = 0
              IN IF dec_json_token(f) = "C_BRACKET_CLOSE" THEN dec_json_return(f, <<0>>)
                 ELSE IF ~first /\ dec_json_token(f) # "C_COMMA" THEN Throw(f)
                 ELSE dec_json_return(
                          dec_json_push(
                              dec_json_count(IF first THEN dec_json_resubmit_prev_token(f)
                                             ELSE f),
                              "ARRAY_ELEMENT"),
                          <<1>>) :
              f \in {dec_json_fetch_token(d)}})

dec_json_decode_array_element_end(d) ==
    dec_json_decode_counted_end(d, "ARRAY_ELEMENT")

dec_json_decode_dictionary_begin(d) ==
    dec_json_decode_counted_begin(d, "DICTIONARY", "C_BRACE_OPEN")

dec_json_decode_dictionary_end(d) == dec_json_decode_counted_end(d, "DICTIONARY")

\* decode_dictionary_element_begin(key): ret is <<1>> and the key, or <<0>>
dec_json_decode_dictionary_element_begin(d) ==
    IF d.is_typed THEN AssertFail(d)
    ELSE IF ~dec_json_top_in(d, {"DICTIONARY"}) THEN Throw(d)
    ELSE The({
        IF dec_json_token(f1) = "C_BRACE_CLOSE" THEN dec_json_return(f1, <<0>>)
        ELSE The({
            IF ~f3.ok THEN f3
            ELSE dec_json_return(dec_json_push(f3, "DICTIONARY_ELEMENT"),
                                 <<1>> \o write_utf8(f3.ret))
            : f3 \in {dec_json_name_colon(d, f1)}})
        : f1 \in {dec_json_fetch_token(d)}})

dec_json_decode_dictionary_element_end(d) ==
    dec_json_decode_counted_end(d, "DICTIONARY_ELEMENT")

\* decode_typed_begin in the TYPEID_AS_FIELD_NAME style, f2 being the decoder
\* after the token that follows the open brace: "T" :
dec_json_typed_begin_field_name(f2) ==
    The({IF dec_json_token(f3) # "C_COLON" THEN Throw(f3)
         ELSE dec_json_return(dec_json_push(f3, "TYPED"),
                              <<crc32(write_utf8(dec_json_string(f2)))>>) :
         f3 \in {dec_json_fetch_token(f2)}})

\* decode_typed_begin in the TYPEID_AS_STRUCT_FIELD style: "$type" : "T"
dec_json_typed_begin_struct_field(f2) ==
    IF write_utf8(dec_json_string(f2)) # f2.typed_field THEN Throw(f2)
    ELSE The({
        IF dec_json_token(f3) # "C_COLON" THEN Throw(f3)
        ELSE The({
            IF ~dec_json_is_name(f4) THEN Throw(f4)
            ELSE dec_json_return(
                     dec_json_count(
                         dec_json_push(dec_json_push([f4 EXCEPT !.is_typed = TRUE],
                                                     "TYPED"),
                                       "STRUCT")),
                     <<crc32(write_utf8(dec_json_string(f4)))>>)
            : f4 \in {dec_json_fetch_token(f3)}})
        : f3 \in {dec_json_fetch_token(f2)}})

dec_json_decode_typed_begin(d, extensible) ==
    IF d.is_typed THEN AssertFail(d)
    ELSE IF dec_json_top_in(d, {"STRUCT", "ARRAY", "DICTIONARY"}) THEN Throw(d)
    ELSE The({
        IF dec_json_token(f1) = "C_NULL"
        THEN dec_json_return(dec_json_push(f1, "TYPED"), <<marshal_label_id_INVALID>>)
        ELSE IF dec_json_token(f1) # "C_BRACE_OPEN" THEN Throw(f1)
        ELSE The({
            IF ~dec_json_is_name(f2) THEN Throw(f2)
            ELSE IF d.polymorphic_encoding = "TYPEID_AS_FIELD_NAME"
            THEN dec_json_typed_begin_field_name(f2)
            ELSE dec_json_typed_begin_struct_field(f2)
            : f2 \in {dec_json_fetch_token(f1)}})
        : f1 \in {dec_json_fetch_token(d)}})

dec_json_decode_typed_end_skip(d) ==
    IF d.is_typed THEN AssertFail(d)
    ELSE IF ~dec_json_top_in(d, {"TYPED"}) THEN Throw(d)
    ELSE The({IF dec_json_token(f) # "C_BRACE_OPEN" THEN Throw(f)
              ELSE [f EXCEPT !.stack = Pop(@)] :
              f \in {dec_json_skip_substructure(d)}})

dec_json_decode_typed_end(d) ==
    IF d.is_typed THEN AssertFail(d)
    ELSE IF ~dec_json_top_in(d, {"TYPED"}) THEN Throw(d)
    ELSE IF d.polymorphic_encoding = "TYPEID_AS_FIELD_NAME"
    THEN The({IF dec_json_token(f) # "C_BRACE_CLOSE" THEN Throw(f)
              ELSE [f EXCEPT !.stack = Pop(@)] :
              f \in {dec_json_fetch_token(d)}})
    ELSE [d EXCEPT !.stack = Pop(@)]


-----------------------------------------------------------------------------
(* The user program: values, the calls that write them, what reading them  *)
(* returns.  A value is a tree of nodes [t, a, n, s, c]: kind, attribute,  *)
(* number, text or bytes, children.                                        *)

Val(t, a, n, s, c) == [t |-> t, a |-> a, n |-> n, s |-> s, c |-> c]

VInt(kind, n) == Val("int", kind, n, <<>>, <<>>)
VBool(b) == Val("bool", "", b, <<>>, <<>>)
VStr(cps) == Val("str", "", 0, write_utf8(cps), <<>>)     \* std::string
VU32(cps) == Val("u32str", "", 0, cps, <<>>)              \* std::u32string
VBin(bytes) == Val("bin", "", 0, bytes, <<>>)
\* A field keeps its child when OPTIONAL_MISSING: it tells the type expected
VField(name, opt, child) == Val("field", opt, 0, name, <<child>>)
VStruct(ext, fields) == Val("struct", ext, 0, <<>>, fields)
VArray(elems) == Val("array", "", 0, <<>>, elems)
VElem(key, child) == Val("elem", "", 0, write_utf8(key), <<child>>)
VDict(elems) == Val("dict", "", 0, <<>>, elems)
VTyped(label, ext, child) == Val("typed", ext, 0, label, <<child>>)
VTypedNull(label, ext) == Val("typed", ext, 0, label, <<>>)
\* What a reader gets of a typed object it skips: the type id only
VSkipped(label, ext) == Val("skipped", ext, 0, label, <<>>)

IsExt(node) == node.a = "ext"

\* An encoder call or a reader step: name, attribute, number, text
Call(op, a, n, s) == [op |-> op, a |-> a, n |-> n, s |-> s]

\* The calls that encode v, as the encode() methods of marshal.hpp make them
RECURSIVE Calls(_)
Calls(v) ==
    LET each(i) == Calls(v.c[i])
        all == Concat([i \in 1..Len(v.c) |-> each(i)])
    IN CASE v.t = "int" -> <<Call("int", v.a, v.n, <<>>)>>
         [] v.t = "bool" -> <<Call("bool", "", v.n, <<>>)>>
         [] v.t = "str" -> <<Call("string_utf8", "", 0, v.s)>>
         [] v.t = "u32str" -> <<Call("u32string", "", 0, v.s)>>
         [] v.t = "bin" -> <<Call("varsize_binary", "", 0, v.s)>>
         [] v.t = "struct" ->
              <<Call("struct_begin", v.a, 0, <<>>)>> \o all
              \o <<Call("struct_end", "", 0, <<>>)>>
         [] v.t = "field" ->
              <<Call("struct_field_begin", v.a, 0, v.s)>>
              \o (IF v.a = "OPTIONAL_MISSING" THEN <<>> ELSE each(1))
              \o <<Call("struct_field_end", "", 0, <<>>)>>
         [] v.t = "array" ->
              <<Call("array_begin", "", Len(v.c), <<>>)>>
              \o Concat([i \in 1..Len(v.c) |->
                           <<Call("array_element_begin", "", 0, <<>>)>> \o each(i)
                           \o <<Call("array_element_end", "", 0, <<>>)>>])
              \o <<Call("array_end", "", 0, <<>>)>>
         [] v.t = "dict" ->
              <<Call("dictionary_begin", "", Len(v.c), <<>>)>> \o all
              \o <<Call("dictionary_end", "", 0, <<>>)>>
         [] v.t = "elem" ->
              <<Call("dictionary_element_begin", "", 0, v.s)>> \o each(1)
              \o <<Call("dictionary_element_end", "", 0, <<>>)>>
         [] v.t = "typed" ->
              <<Call("typed_begin", v.a, 0, v.s)>> \o all
              \o <<Call("typed_end", "", 0, <<>>)>>

\* What the decoder has to return, call by call, to a reader of v
RECURSIVE Flat(_)
Flat(v) ==
    LET each(i) == Flat(v.c[i])
        all == Concat([i \in 1..Len(v.c) |-> each(i)])
    IN CASE v.t \in {"int", "bool"} -> <<<<v.n>>>>
         [] v.t \in {"str", "u32str", "bin"} -> <<v.s>>
         [] v.t = "struct" -> all \o <<<<marshal_label_id_INVALID>>>>
         [] v.t = "field" ->
              IF v.a = "OPTIONAL_MISSING" THEN <<<<crc32(v.s), 0>>>>
              ELSE <<<<crc32(v.s), 1>>>> \o each(1)
         [] v.t = "array" ->
              Concat([i \in 1..Len(v.c) |-> <<<<1>>>> \o each(i)]) \o <<<<0>>>>
         [] v.t = "dict" -> all \o <<<<0>>>>
         [] v.t = "elem" -> <<<<1>>  \o v.s>> \o each(1)
         [] v.t = "typed" ->
              IF v.c = <<>> THEN <<<<marshal_label_id_INVALID>>>>
              ELSE <<<<crc32(v.s)>>>> \o each(1)
         [] v.t = "skipped" -> <<<<crc32(v.s)>>>>

\* The marshal_label_info_t array a reader declares for the struct node
field_infos_of(node) ==
    [i \in 1..Len(node.c) |->
        marshal_label_info_calc(node.c[i].s, node.c[i].a # "MANDATORY")]

IsPrefixOf(s, t) == Len(s) <= Len(t) /\ s = SubSeq(t, 1, Len(s))

-----------------------------------------------------------------------------
(* marshal_enc.hpp, marshal_dec.hpp: the abstract interfaces.  A call on   *)
(* marshal_enc or marshal_dec goes to the codec of the run: the binary one *)
(* when fmt = "bin", the JSON one otherwise.                               *)

\* The constructors of the codecs of the run
marshal_enc_new == IF fmt = "bin" THEN enc_bin_new ELSE enc_json_new(poly)

marshal_dec_new(input) ==
    IF fmt = "bin" THEN dec_bin_new(input) ELSE dec_json_new(input, poly)

-----------------------------------------------------------------------------
(* The values and reader schemas explored *)

\* Code points of the strings: NUL, a, the double quote, line feed, e-acute,
\* the euro sign, an emoji outside the basic plane
Alphabet == {0, 97, 34, 10, 233, 8364, 128512}

SeqsUpTo(S, n) == UNION {[1..k -> S] : k \in 0..n}

Strings == SeqsUpTo(Alphabet, MaxStrLen)

\* Texts of labels and field names: "a", "b", "c", "x", "z", "T", "U"
La == <<97>>
Lb == <<98>>
Lc == <<99>>
Lx == <<120>>
Lz == <<122>>
LT == <<84>>
LU == <<85>>

IntLeaves ==
    {VInt("u8", n) : n \in {0, 255}} \cup {VInt("i8", n) : n \in {-128, 127}}
    \cup {VInt("u16", n) : n \in {65535}} \cup {VInt("i16", n) : n \in {-32768}}
    \cup {VInt("u32", n) : n \in {305419896, 2147483647}}
    \cup {VInt("i32", n) : n \in {-2147483647, 2147483647}}
    \cup {VInt("u64", n) : n \in {0, 1000000}}
    \cup {VInt("i64", n) : n \in {-1, -1000000}}

Leaves ==
    IntLeaves \cup {VBool(b) : b \in {0, 1}} \cup {VStr(s) : s \in Strings}

BinLeaves == {VBin(b) : b \in SeqsUpTo({0, 255}, MaxStrLen)}

U32Leaves == {VU32(s) : s \in Strings}

SmallLeaves == {VInt("u8", 7), VStr(La)}

Opts == {"MANDATORY", "OPTIONAL_MISSING", "OPTIONAL_PRESENT"}

Exts == {"noext", "ext"}

\* Structs of up to two fields a, b over the children C
StructsOver(C) ==
    {VStruct(e, <<>>) : e \in Exts}
    \cup {VStruct(e, <<VField(La, o, c)>>) : e \in Exts, o \in Opts, c \in C}
    \cup {VStruct(e, <<VField(La, o1, c1), VField(Lb, o2, c2)>>) :
            e \in Exts, o1 \in Opts, c1 \in C, o2 \in Opts, c2 \in C}

ArraysOver(C) == {VArray(s) : s \in SeqsUpTo(C, MaxElems)}

\* Keys of the dictionaries: "", "a", e-acute
Keys == {<<>>, <<97>>, <<233>>}

DictsOver(C) ==
    {VDict([i \in 1..Len(s) |-> VElem(s[i][1], s[i][2])]) :
        s \in SeqsUpTo(Keys \X C, MaxElems)}

TypedOver(C) == {VTyped(LT, e, c) : e \in Exts, c \in C}

Flatly == {VStruct("noext", <<VField(La, "MANDATORY", VInt("u8", 7))>>),
           VStruct("ext", <<VField(La, "OPTIONAL_PRESENT", VStr(La))>>)}

\* Containers of leaves
Level1 ==
    StructsOver(SmallLeaves) \cup ArraysOver({VInt("u8", 1), VInt("u8", 2)})
    \cup ArraysOver({VStr(La)}) \cup DictsOver({VInt("u8", 5)})
    \cup TypedOver(SmallLeaves \cup Flatly)

\* Containers of containers, one of each kind inside each kind
Inner ==
    Flatly \cup {VArray(<<VInt("u8", 1)>>), VArray(<<>>),
                 VDict(<<VElem(La, VInt("u8", 5))>>), VDict(<<>>),
                 VTyped(LT, "noext", VInt("u8", 7)),
                 VTyped(LT, "ext", VStruct("noext", <<VField(La, "MANDATORY", VStr(La))>>))}

Level2 ==
    {VStruct(e, <<VField(La, o, c), VField(Lb, "MANDATORY", VInt("u8", 9))>>) :
        e \in Exts, o \in {"MANDATORY", "OPTIONAL_PRESENT"}, c \in Inner}
    \cup {VArray(<<c, c>>) : c \in Inner}
    \cup {VDict(<<VElem(La, c), VElem(Lb, c)>>) : c \in Inner}
    \cup {VTyped(LT, e, c) : e \in Exts, c \in Inner}

\* A scenario: its kind k, the value v written, the schema r the reader
\* declares, the value x the reader has to obtain
Scenario(k, v, r, x) == [k |-> k, v |-> v, r |-> r, x |-> x]

RoundTrips(V) == {Scenario("rt", v, v, v) : v \in V}

\* v as the field x of a struct whose field z follows it
Wrap(v) ==
    VStruct("noext", <<VField(Lx, "MANDATORY", v),
                       VField(Lz, "MANDATORY", VInt("u8", 9))>>)

\* Alone and followed by another value
Placed(k, v, r, x) == {Scenario(k, v, r, x), Scenario(k, Wrap(v), Wrap(r), Wrap(x))}

\* Extensible structs a, b, c that the reader knows a prefix of
Extended ==
    {VStruct("ext", <<VField(La, o, VInt("u8", 7))>>) : o \in Opts}
    \cup {VStruct("ext", <<VField(La, o1, VInt("u8", 7)), VField(Lb, o2, VStr(La))>>) :
            o1 \in Opts, o2 \in Opts}
    \cup {VStruct("ext", <<VField(La, o1, VInt("u8", 7)), VField(Lb, o2, VStr(La)),
                           VField(Lc, o3, VInt("u16", 65535))>>) :
            o1 \in Opts, o2 \in Opts, o3 \in Opts}

Trunc(v, m) == [v EXCEPT !.c = SubSeq(@, 1, m)]

PrefixScenarios ==
    UNION {UNION {Placed("prefix", v, Trunc(v, m), Trunc(v, m)) : m \in 0..(Len(v.c) - 1)} :
             v \in Extended}

\* The reverse: the writer is the older program and wrote the fields f1..fm
\* only, the reader declares f1..fn, m < n
FewerScenarios ==
    UNION {UNION {Placed("fewer", Trunc(v, m), v, Trunc(v, m)) : m \in 0..(Len(v.c) - 1)} :
             v \in Extended}

\* A null typed object, read by a program that knows the type T
NullScenarios ==
    UNION {Placed("null", VTypedNull(LT, e),
                  VTyped(LT, e, VStruct("noext", <<VField(La, "MANDATORY", VInt("u8", 7))>>)),
                  VTypedNull(LT, e)) : e \in Exts}

\* Code points of the UTF-32 strings of the binary codec: one of each UTF-8
\* width
U32Alphabet == {97, 233, 8364, 128512}

\* A UTF-32 string written and read back by the binary codec, alone and
\* followed by another value
U32Scenarios ==
    UNION {Placed("u32rt", VU32(s), VU32(s), VU32(s)) :
             s \in SeqsUpTo(U32Alphabet, MaxU32Len)}

\* Bytes in which a multi-byte start byte comes too late for its
\* continuation bytes, and bytes of whole characters
CutBytes ==
    {<<195>>, <<97, 195>>, <<226>>, <<226, 130>>, <<240>>, <<240, 159>>,
     <<240, 159, 152>>, <<195, 169, 226>>, <<195, 169>>, <<97>>}

\* v and then the byte n
Followed(v, n) ==
    VStruct("noext", <<VField(Lx, "MANDATORY", v),
                       VField(Lz, "MANDATORY", VInt("u8", n))>>)

\* The bytes b, written with their length before them, read as a UTF-32
\* string: alone, and followed by a byte that is or is not a continuation
\* byte
CutScenarios ==
    {Scenario("u32cut", VBin(b), VU32(<<>>), VU32(<<>>)) : b \in CutBytes}
    \cup {Scenario("u32cut", Followed(VBin(b), n), Followed(VU32(<<>>), n),
                   Followed(VU32(<<>>), n)) : b \in CutBytes, n \in {9, 169}}

Payloads == Flatly \cup {VInt("u8", 7), VArray(<<VInt("u8", 1)>>)}

\* The reader knows the type U only; n = 1: it does not call decode_typed_end
\* after decode_typed_end_skip
Unknown(n) ==
    [VTyped(LU, "ext", VStruct("noext", <<VField(La, "MANDATORY", VInt("u8", 0))>>))
        EXCEPT !.n = n]

SkipScenarios ==
    {Scenario("skip", Wrap(VTyped(LT, "ext", c)), Wrap(Unknown(1)),
              Wrap(VSkipped(LT, "ext"))) : c \in Payloads}

SkipEndScenarios ==
    UNION {Placed("skipend", VTyped(LT, "ext", c), Unknown(0), VSkipped(LT, "ext")) :
             c \in Payloads}

\* The reader decodes less (under) or more (over) than the frame holds
Narrow == VInt("u8", 1)
Wide == VInt("u16", 513)
InTyped(c) == VTyped(LT, "ext", c)
InStruct(c) == VStruct("ext", <<VField(La, "MANDATORY", c)>>)

UnderOverScenarios ==
    {Scenario("tunder", Wrap(InTyped(Wide)), Wrap(InTyped(Narrow)), Wrap(InTyped(Narrow))),
     Scenario("tover", Wrap(InTyped(Narrow)), Wrap(InTyped(Wide)), Wrap(InTyped(Wide))),
     Scenario("sunder", Wrap(InStruct(Wide)), Wrap(InStruct(Narrow)), Wrap(InStruct(Narrow))),
     Scenario("sover", Wrap(InStruct(Narrow)), Wrap(InStruct(Wide)), Wrap(InStruct(Wide)))}

\* A struct whose field a is written OPTIONAL_MISSING, read by a program that
\* declares the field as decl and whose way with the flag is n (see
\* PassesFlag, DecodesValue); then the same struct without the field b
NullField(fields, decl, n) ==
    Scenario("nullfield", VStruct("noext", fields),
             [VStruct("noext", [fields EXCEPT ![1].a = decl]) EXCEPT !.n = n],
             VStruct("noext", fields))

NullFieldScenarios ==
    {NullField(fields, decl, n) :
        fields \in {<<VField(La, "OPTIONAL_MISSING", c)>> \o rest :
                      c \in {VInt("u8", 7), VStr(La)},
                      rest \in {<<>>, <<VField(Lb, "MANDATORY", VInt("u8", 9))>>}},
        decl \in {"MANDATORY", "OPTIONAL_PRESENT"}, n \in {0, 1, 2}}

\* s with e inserted after its first i elements
InsertAt(s, i, e) == SubSeq(s, 1, i) \o <<e>> \o SubSeq(s, i + 1, Len(s))

\* The fields a, b the reader knows, in the order the reader declares them
KnownFields ==
    <<VField(La, "MANDATORY", VInt("u8", 7)), VField(Lb, "MANDATORY", VStr(La))>>

\* A JSON object that holds the fields a, b in either order, alone or with
\* the field x unknown to the reader before, between or after them; the
\* reader has to obtain a and b in the order of the text
LatitudeScenarios ==
    UNION {{Scenario("latitude", VStruct("noext", known), VStruct("noext", KnownFields),
                     VStruct("noext", known))}
           \cup {Scenario("latitude",
                          VStruct("noext", InsertAt(known, i, VField(Lx, "MANDATORY", c))),
                          VStruct("noext", KnownFields), VStruct("noext", known)) :
                   i \in 0..2, c \in Payloads} :
           known \in {KnownFields, <<KnownFields[2], KnownFields[1]>>}}

\* Every typed object of the value holds a struct or nothing: what the
\* TYPEID_AS_STRUCT_FIELD style is documented to encode (marshal_json.hpp)
RECURSIVE StructInTyped(_)
StructInTyped(v) ==
    /\ (v.t = "typed" /\ v.c # <<>>) => v.c[1].t = "struct"
    /\ \A i \in 1..Len(v.c) : StructInTyped(v.c[i])

Scenarios(f, p) ==
    IF f = "bin"
    THEN RoundTrips(Leaves \cup BinLeaves \cup Level1 \cup Level2)
         \cup PrefixScenarios \cup NullScenarios \cup SkipScenarios
         \cup SkipEndScenarios \cup UnderOverScenarios \cup FewerScenarios
         \cup U32Scenarios \cup CutScenarios
    ELSE {sc \in RoundTrips(Leaves \cup U32Leaves \cup Level1 \cup Level2)
                 \cup NullScenarios \cup SkipScenarios \cup SkipEndScenarios
                 \cup NullFieldScenarios \cup LatitudeScenarios :
            p = "TYPEID_AS_STRUCT_FIELD" => StructInTyped(sc.v)}

-----------------------------------------------------------------------------
(* The callers *)

Formats == {"bin", "json"}

\* The polymorphic styles of marshal_json.hpp; the binary codec has none
Styles(f) ==
    IF f = "bin" THEN {"TYPEID_AS_FIELD_NAME"}
    ELSE {"TYPEID_AS_FIELD_NAME", "TYPEID_AS_STRUCT_FIELD"}

NoNode == Val("none", "", 0, <<>>, <<>>)

Task(op, sch) == [op |-> op, sch |-> sch]

NoCall == [op |-> "none", before |-> <<>>]

\* A program that writes scen.v and then reads it back declaring scen.r
Init ==
    /\ fmt \in Formats
    /\ poly \in Styles(fmt)
    /\ scen \in Scenarios(fmt, poly)
    /\ phase = "enc"
    /\ enc = marshal_enc_new
    /\ dec = <<>>
    /\ ecalls = Calls(scen.v)
    /\ dtodo = <<>>
    /\ dlog = <<>>
    /\ ncalls = 0
    /\ last = NoCall
    /\ tok = <<>>
    /\ tlog = <<>>
    /\ num = <<>>

\* The calls an arbitrary caller chooses from
FreeCalls ==
    {Call("int", "u8", 1, <<>>), Call("bool", "", 1, <<>>),
     Call("string_utf8", "", 0, La), Call("u32string", "", 0, La),
     Call("varsize_binary", "", 0, <<1>>),
     Call("struct_end", "", 0, <<>>), Call("struct_field_end", "", 0, <<>>),
     Call("array_begin", "", 1, <<>>), Call("array_end", "", 0, <<>>),
     Call("array_element_begin", "", 0, <<>>), Call("array_element_end", "", 0, <<>>),
     Call("dictionary_begin", "", 1, <<>>), Call("dictionary_end", "", 0, <<>>),
     Call("dictionary_element_begin", "", 0, La),
     Call("dictionary_element_end", "", 0, <<>>), Call("typed_end", "", 0, <<>>)}
    \cup {Call("struct_begin", e, 0, <<>>) : e \in Exts}
    \cup {Call("struct_field_begin", o, 0, La) : o \in Opts}
    \cup {Call("typed_begin", e, 0, LT) : e \in Exts}

FreeTasks ==
    {Task("value", v) :
        v \in {VInt("u8", 0), VBool(0), VStr(<<>>), VU32(<<>>), VBin(<<>>),
               VArray(<<>>), VDict(<<>>)}
              \cup {VStruct(e, <<VField(La, "MANDATORY", VInt("u8", 0))>>) : e \in Exts}
              \cup {VTyped(LT, e, VInt("u8", 0)) : e \in Exts}}
    \cup {Task(op, NoNode) :
            op \in {"fields", "struct_field_end", "struct_end", "elems",
                    "array_element_end", "array_end", "delems",
                    "dictionary_element_end", "dictionary_end", "typed_end_skip",
                    "typed_end"}}

\* The steps of a reader of arrays and dictionaries of numbers and strings,
\* and of structs
TextTasks ==
    {Task("value", v) :
        v \in {VInt("u8", 0), VStr(<<>>), VArray(<<>>), VDict(<<>>),
               VStruct("noext", <<VField(La, "OPTIONAL_PRESENT", VInt("u8", 0))>>)}}
    \cup {Task(op, NoNode) :
            op \in {"fields", "struct_field_end", "struct_end", "elems",
                    "array_element_end", "array_end", "delems",
                    "dictionary_element_end", "dictionary_end"}}

\* An arbitrary caller of a fresh encoder
InitFree ==
    /\ fmt \in Formats
    /\ poly \in Styles(fmt)
    /\ scen = Scenario("free", NoNode, NoNode, NoNode)
    /\ phase = "fenc"
    /\ enc = marshal_enc_new
    /\ dec = <<>>
    /\ ecalls = <<>>
    /\ dtodo = <<>>
    /\ dlog = <<>>
    /\ ncalls = 0
    /\ last = NoCall
    /\ tok = <<>>
    /\ tlog = <<>>
    /\ num = <<>>

\* The calls the caller of the encoder can make next
EncCalls ==
    IF phase = "enc" /\ enc.ok /\ ecalls # <<>> THEN {Head(ecalls)}
    ELSE IF phase = "fenc" /\ enc.ok /\ ncalls < MaxFreeCalls THEN FreeCalls
    ELSE {}

\* The caller has made the call named op, which left the encoder as e2
EncStep(op, e2) ==
    /\ enc' = e2
    /\ ecalls' = IF phase = "enc" THEN Tail(ecalls) ELSE ecalls
    /\ ncalls' = IF phase = "fenc" THEN ncalls + 1 ELSE ncalls
    /\ last' = [op |-> op, before |-> enc]
    /\ UNCHANGED <<fmt, poly, scen, phase, dec, dtodo, dlog, tok, tlog, num>>

\* The steps the caller of the decoder can make next
DecTasks ==
    IF phase = "dec" /\ dec.ok /\ dtodo # <<>> THEN {Head(dtodo)}
    ELSE IF phase = "fdec" /\ dec.ok /\ ncalls < MaxFreeCalls THEN FreeTasks
    ELSE IF phase = "tdec" /\ dec.ok /\ ncalls < MaxTextCalls THEN TextTasks
    ELSE {}

\* The caller has made the call named op, which left the decoder as d2 and
\* returned what is in logged; the reader goes on with the steps in then
DecStep(op, d2, then, logged) ==
    \E d \in {d2} :
    \E todo \in {IF phase # "dec" \/ ~d.ok THEN dtodo ELSE then \o Tail(dtodo)} :
        /\ dec' = d
        /\ dtodo' = todo
        /\ dlog' = IF phase = "dec" /\ d.ok THEN dlog \o logged ELSE dlog
        /\ phase' = IF phase = "dec" /\ todo = <<>> THEN "done" ELSE phase
        /\ ncalls' = IF phase \in {"fdec", "tdec"} THEN ncalls + 1 ELSE ncalls
        /\ last' = [op |-> op, before |-> dec]
        /\ UNCHANGED <<fmt, poly, scen, enc, ecalls, tok, tlog, num>>

-----------------------------------------------------------------------------
(* Calls on the encoder *)

EncodeBool ==
    \E c \in EncCalls :
        /\ c.op = "bool"
        /\ EncStep("encode_bool",
                   IF fmt = "bin" THEN enc_bin_encode_bool(enc, c.n = 1)
                   ELSE enc_json_encode_bool(enc, c.n = 1))

EncodeInt ==
    \E c \in EncCalls :
        /\ c.op = "int"
        /\ EncStep("encode_int",
                   IF fmt = "bin" THEN enc_bin_encode_int(enc, c.a, c.n)
                   ELSE enc_json_encode_int(enc, c.a, c.n))

EncodeStringUtf8 ==
    \E c \in EncCalls :
        /\ c.op = "string_utf8"
        /\ EncStep("encode_string_utf8",
                   IF fmt = "bin" THEN enc_bin_encode_string_utf8(enc, c.s)
                   ELSE enc_json_encode_string_utf8(enc, c.s))

EncodeU32String ==
    \E c \in EncCalls :
        /\ c.op = "u32string"
        /\ EncStep("encode_u32string",
                   IF fmt = "bin" THEN enc_bin_encode_u32string(enc, c.s)
                   ELSE enc_json_encode_u32string(enc, c.s))

EncodeVarsizeBinary ==
    \E c \in EncCalls :
        /\ c.op = "varsize_binary"
        /\ fmt = "bin"
        /\ EncStep("encode_varsize_binary", enc_bin_internal_encode_varsize_binary(enc, c.s))

EncodeStructBegin ==
    \E c \in EncCalls :
        /\ c.op = "struct_begin"
        /\ EncStep("encode_struct_begin",
                   IF fmt = "bin" THEN enc_bin_encode_struct_begin(enc, IsExt(c))
                   ELSE enc_json_encode_struct_begin(enc, IsExt(c)))

EncodeStructEnd ==
    \E c \in EncCalls :
        /\ c.op = "struct_end"
        /\ EncStep("encode_struct_end",
                   IF fmt = "bin" THEN enc_bin_encode_struct_end(enc)
                   ELSE enc_json_encode_struct_end(enc))

EncodeStructFieldBegin ==
    \E c \in EncCalls :
        /\ c.op = "struct_field_begin"
        /\ EncStep("encode_struct_field_begin",
                   IF fmt = "bin"
                   THEN enc_bin_encode_struct_field_begin(enc, marshal_label(c.s), c.a)
                   ELSE enc_json_encode_struct_field_begin(enc, marshal_label(c.s), c.a))

EncodeStructFieldEnd ==
    \E c \in EncCalls :
        /\ c.op = "struct_field_end"
        /\ EncStep("encode_struct_field_end",
                   IF fmt = "bin" THEN enc_bin_encode_struct_field_end(enc)
                   ELSE enc_json_encode_struct_field_end(enc))

EncodeArrayBegin ==
    \E c \in EncCalls :
        /\ c.op = "array_begin"
        /\ EncStep("encode_array_begin",
                   IF fmt = "bin" THEN enc_bin_encode_array_begin(enc, c.n)
                   ELSE enc_json_encode_array_begin(enc, c.n))

EncodeArrayEnd ==
    \E c \in EncCalls :
        /\ c.op = "array_end"
        /\ EncStep("encode_array_end",
                   IF fmt = "bin" THEN enc_bin_encode_array_end(enc)
                   ELSE enc_json_encode_array_end(enc))

EncodeArrayElementBegin ==
    \E c \in EncCalls :
        /\ c.op = "array_element_begin"
        /\ EncStep("encode_array_element_begin",
                   IF fmt = "bin" THEN enc_bin_encode_array_element_begin(enc)
                   ELSE enc_json_encode_array_element_begin(enc))

EncodeArrayElementEnd ==
    \E c \in EncCalls :
        /\ c.op = "array_element_end"
        /\ EncStep("encode_array_element_end",
                   IF fmt = "bin" THEN enc_bin_encode_array_element_end(enc)
                   ELSE enc_json_encode_array_element_end(enc))

EncodeDictionaryBegin ==
    \E c \in EncCalls :
        /\ c.op = "dictionary_begin"
        /\ EncStep("encode_dictionary_begin",
                   IF fmt = "bin" THEN enc_bin_encode_dictionary_begin(enc, c.n)
                   ELSE enc_json_encode_dictionary_begin(enc, c.n))

EncodeDictionaryEnd ==
    \E c \in EncCalls :
        /\ c.op = "dictionary_end"
        /\ EncStep("encode_dictionary_end",
                   IF fmt = "bin" THEN enc_bin_encode_dictionary_end(enc)
                   ELSE enc_json_encode_dictionary_end(enc))

EncodeDictionaryElementBegin ==
    \E c \in EncCalls :
        /\ c.op = "dictionary_element_begin"
        /\ EncStep("encode_dictionary_element_begin",
                   IF fmt = "bin" THEN enc_bin_encode_dictionary_element_begin(enc, c.s)
                   ELSE enc_json_encode_dictionary_element_begin(enc, c.s))

EncodeDictionaryElementEnd ==
    \E c \in EncCalls :
        /\ c.op = "dictionary_element_end"
        /\ EncStep("encode_dictionary_element_end",
                   IF fmt = "bin" THEN enc_bin_encode_dictionary_element_end(enc)
                   ELSE enc_json_encode_dictionary_element_end(enc))

EncodeTypedBegin ==
    \E c \in EncCalls :
        /\ c.op = "typed_begin"
        /\ EncStep("encode_typed_begin",
                   IF fmt = "bin"
                   THEN enc_bin_encode_typed_begin(enc, marshal_label(c.s), IsExt(c))
                   ELSE enc_json_encode_typed_begin(enc, marshal_label(c.s), IsExt(c)))

EncodeTypedEnd ==
    \E c \in EncCalls :
        /\ c.op = "typed_end"
        /\ EncStep("encode_typed_end",
                   IF fmt = "bin" THEN enc_bin_encode_typed_end(enc)
                   ELSE enc_json_encode_typed_end(enc))

\* The program constructs the decoder over what the encoder wrote
OpenDecoder ==
    /\ enc.ok
    /\ \/ phase = "enc" /\ ecalls = <<>>
       \/ phase = "fenc" /\ ncalls > 0 /\ enc.stack = <<>>
    /\ dec' = marshal_dec_new(enc.out)
    /\ dtodo' = IF phase = "enc" THEN <<Task("value", scen.r)>> ELSE <<>>
    /\ phase' = IF phase = "enc" THEN "dec" ELSE "fdec"
    /\ ncalls' = 0
    /\ last' = [op |-> "marshal_dec", before |-> enc]
    /\ UNCHANGED <<fmt, poly, scen, enc, ecalls, dlog, tok, tlog, num>>

-----------------------------------------------------------------------------
(* Calls on the decoder, with what the reader does with the result (the    *)
(* decoding loops documented in marshal.hpp)                               *)

Returned(d) == <<d.ret>>

DecodeBool ==
    \E t \in DecTasks :
        /\ t.op = "value" /\ t.sch.t = "bool"
        /\ \E d \in {IF fmt = "bin" THEN dec_bin_decode_bool(dec)
                     ELSE dec_json_decode_bool(dec)} :
              DecStep("decode_bool", d, <<>>, Returned(d))

DecodeInt ==
    \E t \in DecTasks :
        /\ t.op = "value" /\ t.sch.t = "int"
        /\ \E d \in {IF fmt = "bin" THEN dec_bin_decode_int(dec, t.sch.a)
                     ELSE dec_json_decode_int(dec, t.sch.a)} :
              DecStep("decode_int", d, <<>>, Returned(d))

DecodeStringUtf8 ==
    \E t \in DecTasks :
        /\ t.op = "value" /\ t.sch.t = "str"
        /\ \E d \in {IF fmt = "bin" THEN dec_bin_decode_string_utf8(dec)
                     ELSE dec_json_decode_string_utf8(dec)} :
              DecStep("decode_string_utf8", d, <<>>, Returned(d))

DecodeU32String ==
    \E t \in DecTasks :
        /\ t.op = "value" /\ t.sch.t = "u32str"
        /\ \E d \in {IF fmt = "bin" THEN dec_bin_decode_u32string(dec)
                     ELSE dec_json_decode_u32string(dec)} :
              DecStep("decode_u32string", d, <<>>, Returned(d))

DecodeVarsizeBinary ==
    \E t \in DecTasks :
        /\ t.op = "value" /\ t.sch.t = "bin"
        /\ fmt = "bin"
        /\ \E d \in {dec_bin_internal_decode_varsize_binary(dec)} :
              DecStep("decode_varsize_binary", d, <<>>, Returned(d))

DecodeStructBegin ==
    \E t \in DecTasks :
        /\ t.op = "value" /\ t.sch.t = "struct"
        /\ \E d \in {IF fmt = "bin"
                     THEN dec_bin_decode_struct_begin(dec, IsExt(t.sch),
                                                      field_infos_of(t.sch))
                     ELSE dec_json_decode_struct_begin(dec, IsExt(t.sch),
                                                       field_infos_of(t.sch))} :
              DecStep("decode_struct_begin", d,
                      <<Task("fields", t.sch), Task("struct_end", NoNode)>>, <<>>)

\* The fields of the struct node whose label id is id (the cases of the
\* reader's switch)
FieldsWithId(node, id) == {i \in 1..Len(node.c) : crc32(node.c[i].s) = id}

\* The reader of the struct node passes a pointer to its flag to
\* decode_struct_field_begin (n = 1: it passes nullptr)
PassesFlag(node) == node.n # 1

\* The reader decodes the value of the field it declares as field, the flag
\* being present: it does when the field is present; the reader that passes
\* no flag always does; n = 2: the reader heeds the flag of the fields it
\* declares optional only
DecodesValue(node, field, present) ==
    CASE node.n = 1 -> TRUE
      [] node.n = 2 -> field.a = "MANDATORY" \/ present
      [] OTHER -> present

\* for(;;) { id = decode_struct_field_begin(&present); if (id == INVALID)
\* break; switch(id) {...} decode_struct_field_end(); }
DecodeStructFieldBegin ==
    \E t \in DecTasks :
        /\ t.op = "fields"
        /\ \E d \in {IF fmt = "bin"
                     THEN dec_bin_decode_struct_field_begin(dec, PassesFlag(t.sch))
                     ELSE dec_json_decode_struct_field_begin(dec, PassesFlag(t.sch))} :
              IF ~d.ok THEN DecStep("decode_struct_field_begin", d, <<>>, <<>>)
              ELSE IF d.ret[1] = marshal_label_id_INVALID
              THEN DecStep("decode_struct_field_begin", d, <<>>, Returned(d))
              ELSE \E known \in {FieldsWithId(t.sch, d.ret[1])} :
                     DecStep("decode_struct_field_begin", d,
                             (IF known # {}
                                 /\ DecodesValue(t.sch,
                                                 t.sch.c[CHOOSE i \in known : TRUE],
                                                 d.present)
                              THEN <<Task("value",
                                          t.sch.c[CHOOSE i \in known : TRUE].c[1])>>
                              ELSE <<>>)
                             \o <<Task("struct_field_end", NoNode), t>>,
                             <<<<d.ret[1], IF d.present THEN 1 ELSE 0>>>>)

DecodeStructFieldEnd ==
    \E t \in DecTasks :
        /\ t.op = "struct_field_end"
        /\ DecStep("decode_struct_field_end",
                   IF fmt = "bin" THEN dec_bin_decode_struct_field_end(dec)
                   ELSE dec_json_decode_struct_field_end(dec),
                   <<>>, <<>>)

DecodeStructEnd ==
    \E t \in DecTasks :
        /\ t.op = "struct_end"
        /\ DecStep("decode_struct_end",
                   IF fmt = "bin" THEN dec_bin_decode_struct_end(dec)
                   ELSE dec_json_decode_struct_end(dec), <<>>, <<>>)

\* The schema of the elements of an array or dictionary node
ElementOf(node) ==
    IF node.c = <<>> THEN VInt("u8", 0)
    ELSE IF node.c[1].t = "elem" THEN node.c[1].c[1]
    ELSE node.c[1]

DecodeArrayBegin ==
    \E t \in DecTasks :
        /\ t.op = "value" /\ t.sch.t = "array"
        /\ DecStep("decode_array_begin",
                   IF fmt = "bin" THEN dec_bin_decode_array_begin(dec)
                   ELSE dec_json_decode_array_begin(dec),
                   <<Task("elems", t.sch), Task("array_end", NoNode)>>, <<>>)

\* while (decode_array_element_begin()) { ...; decode_array_element_end(); }
DecodeArrayElementBegin ==
    \E t \in DecTasks :
        /\ t.op = "elems"
        /\ \E d \in {IF fmt = "bin" THEN dec_bin_decode_array_element_begin(dec)
                     ELSE dec_json_decode_array_element_begin(dec)} :
              IF d.ok /\ d.ret[1] = 0
              THEN DecStep("decode_array_element_begin", d, <<>>, Returned(d))
              ELSE DecStep("decode_array_element_begin", d,
                           <<Task("value", ElementOf(t.sch)),
                             Task("array_element_end", NoNode), t>>, Returned(d))

DecodeArrayElementEnd ==
    \E t \in DecTasks :
        /\ t.op = "array_element_end"
        /\ DecStep("decode_array_element_end",
                   IF fmt = "bin" THEN dec_bin_decode_array_element_end(dec)
                   ELSE dec_json_decode_array_element_end(dec), <<>>, <<>>)

DecodeArrayEnd ==
    \E t \in DecTasks :
        /\ t.op = "array_end"
        /\ DecStep("decode_array_end",
                   IF fmt = "bin" THEN dec_bin_decode_array_end(dec)
                   ELSE dec_json_decode_array_end(dec), <<>>, <<>>)

DecodeDictionaryBegin ==
    \E t \in DecTasks :
        /\ t.op = "value" /\ t.sch.t = "dict"
        /\ DecStep("decode_dictionary_begin",
                   IF fmt = "bin" THEN dec_bin_decode_dictionary_begin(dec)
                   ELSE dec_json_decode_dictionary_begin(dec),
                   <<Task("delems", t.sch), Task("dictionary_end", NoNode)>>, <<>>)

\* while (decode_dictionary_element_begin(key)) { ...;
\* decode_dictionary_element_end(); }
DecodeDictionaryElementBegin ==
    \E t \in DecTasks :
        /\ t.op = "delems"
        /\ \E d \in {IF fmt = "bin" THEN dec_bin_decode_dictionary_element_begin(dec)
                     ELSE dec_json_decode_dictionary_element_begin(dec)} :
              IF d.ok /\ d.ret[1] = 0
              THEN DecStep("decode_dictionary_element_begin", d, <<>>, Returned(d))
              ELSE DecStep("decode_dictionary_element_begin", d,
                           <<Task("value", ElementOf(t.sch)),
                             Task("dictionary_element_end", NoNode), t>>, Returned(d))

DecodeDictionaryElementEnd ==
    \E t \in DecTasks :
        /\ t.op = "dictionary_element_end"
        /\ DecStep("decode_dictionary_element_end",
                   IF fmt = "bin" THEN dec_bin_decode_dictionary_element_end(dec)
                   ELSE dec_json_decode_dictionary_element_end(dec), <<>>, <<>>)

DecodeDictionaryEnd ==
    \E t \in DecTasks :
        /\ t.op = "dictionary_end"
        /\ DecStep("decode_dictionary_end",
                   IF fmt = "bin" THEN dec_bin_decode_dictionary_end(dec)
                   ELSE dec_json_decode_dictionary_end(dec),
                   <<>>, <<>>)

\* type = decode_typed_begin(ext); switch(type) { case known: decode the
\* object; default: decode_typed_end_skip(); } decode_typed_end();
\* a null object (marshal_label_id_INVALID) has nothing to decode
DecodeTypedBegin ==
    \E t \in DecTasks :
        /\ t.op = "value" /\ t.sch.t = "typed"
        /\ \E d \in {IF fmt = "bin" THEN dec_bin_decode_typed_begin(dec, IsExt(t.sch))
                     ELSE dec_json_decode_typed_begin(dec, IsExt(t.sch))} :
              DecStep("decode_typed_begin", d,
                      IF ~d.ok THEN <<>>
                      ELSE IF d.ret[1] = marshal_label_id_INVALID
                      THEN <<Task("typed_end", NoNode)>>
                      ELSE IF t.sch.c # <<>> /\ d.ret[1] = crc32(t.sch.s)
                      THEN <<Task("value", t.sch.c[1]), Task("typed_end", NoNode)>>
                      ELSE <<Task("typed_end_skip", NoNode)>>
                           \o (IF t.sch.n = 1 THEN <<>>
                               ELSE <<Task("typed_end", NoNode)>>),
                      Returned(d))

DecodeTypedEndSkip ==
    \E t \in DecTasks :
        /\ t.op = "typed_end_skip"
        /\ DecStep("decode_typed_end_skip",
                   IF fmt = "bin" THEN dec_bin_decode_typed_end_skip(dec)
                   ELSE dec_json_decode_typed_end_skip(dec),
                   <<>>, <<>>)

DecodeTypedEnd ==
    \E t \in DecTasks :
        /\ t.op = "typed_end"
        /\ DecStep("decode_typed_end",
                   IF fmt = "bin" THEN dec_bin_decode_typed_end(dec)
                   ELSE dec_json_decode_typed_end(dec), <<>>, <<>>)

-----------------------------------------------------------------------------

Next ==
    \/ EncodeBool \/ EncodeInt \/ EncodeStringUtf8 \/ EncodeU32String
    \/ EncodeVarsizeBinary
    \/ EncodeStructBegin \/ EncodeStructEnd
    \/ EncodeStructFieldBegin \/ EncodeStructFieldEnd
    \/ EncodeArrayBegin \/ EncodeArrayEnd
    \/ EncodeArrayElementBegin \/ EncodeArrayElementEnd
    \/ EncodeDictionaryBegin \/ EncodeDictionaryEnd
    \/ EncodeDictionaryElementBegin \/ EncodeDictionaryElementEnd
    \/ EncodeTypedBegin \/ EncodeTypedEnd
    \/ OpenDecoder
    \/ DecodeBool \/ DecodeInt \/ DecodeStringUtf8 \/ DecodeU32String
    \/ DecodeVarsizeBinary
    \/ DecodeStructBegin \/ DecodeStructEnd
    \/ DecodeStructFieldBegin \/ DecodeStructFieldEnd
    \/ DecodeArrayBegin \/ DecodeArrayEnd
    \/ DecodeArrayElementBegin \/ DecodeArrayElementEnd
    \/ DecodeDictionaryBegin \/ DecodeDictionaryEnd
    \/ DecodeDictionaryElementBegin \/ DecodeDictionaryElementEnd
    \/ DecodeTypedBegin \/ DecodeTypedEndSkip \/ DecodeTypedEnd

Spec == Init /\ [][Next]_vars

SpecFree == InitFree /\ [][Next]_vars

-----------------------------------------------------------------------------
(* The callers of the tokenizer *)

\* Characters fed one by one: / * a " @ 1 and the comma
PushAlphabet == {47, 42, 97, 34, 64, 49, 44}

\* Characters of the texts read from a source: / * a " @ and the comma
TextAlphabet == {47, 42, 97, 34, 64, 44}

\* Characters of the runs of number characters: 0 1 - + . e
NumberAlphabet == {48, 49, 45, 43, 46, 101}

\* What stands behind a run: nothing, a comma, the letter a, a space
Terminators == {<<>>, <<44>>, <<97>>, <<32>>}

\* A run of number characters that begins with a digit or with -
NumberRuns ==
    {<<c>> \o r : c \in {48, 49, 45}, r \in SeqsUpTo(NumberAlphabet, MaxRunLen - 1)}

PullTexts ==
    SeqsUpTo(TextAlphabet, MaxTextLen)
    \cup {r \o t : r \in NumberRuns, t \in Terminators}

TokCall(op, ch, t) ==
    [op |-> op, ch |-> ch, ret |-> t.last_process_ret, state |-> t.state]

\* A program that feeds a json_tokenizer (phase "push") or fetches the
\* tokens of a json_tokenizer_sourced (phase "pull")
InitTok ==
    /\ fmt = "json"
    /\ poly = "TYPEID_AS_FIELD_NAME"
    /\ scen = Scenario("tok", NoNode, NoNode, NoNode)
    /\ phase \in {"push", "pull"}
    /\ enc = <<>>
    /\ dec = <<>>
    /\ ecalls = <<>>
    /\ dtodo = <<>>
    /\ dlog = <<>>
    /\ ncalls = 0
    /\ num = <<>>
    /\ last = NoCall
    /\ \/ /\ phase = "push"
          /\ \E c \in PushAlphabet :
                /\ tok = json_tokenizer(c)
                /\ tlog = <<TokCall("json_tokenizer", c, tok)>>
       \/ /\ phase = "pull"
          /\ \E src \in PullTexts :
                /\ tok = json_tokenizer_sourced(src)
                /\ tlog = <<TokCall("json_tokenizer_sourced", CH32_EOF, tok)>>

\* The caller has made the call named op with the character ch, which left
\* the tokenizer as t2
TokStep(op, ch, t2) ==
    \E t \in {t2} :
        /\ tok' = t
        /\ tlog' = Append(tlog, TokCall(op, ch, t))
        /\ ncalls' = ncalls + 1
        /\ last' = [op |-> op, before |-> tok]
        /\ UNCHANGED <<fmt, poly, scen, phase, enc, dec, ecalls, dtodo, dlog, num>>

\* json_tokenizer::process_char(ch)
ProcessChar ==
    /\ phase = "push" /\ tok.ok /\ ncalls < MaxTokCalls
    /\ \E ch \in PushAlphabet : TokStep("process_char", ch, internal_process_char(tok, ch))

\* json_tokenizer::process_eof()
ProcessEof ==
    /\ phase = "push" /\ tok.ok /\ ncalls < MaxTokCalls
    /\ TokStep("process_eof", CH32_EOF, internal_process_eof(tok))

\* json_tokenizer_sourced::fetch_token()
FetchToken ==
    /\ phase = "pull" /\ tok.ok /\ ncalls < MaxFetches
    /\ TokStep("fetch_token", CH32_EOF, json_tokenizer_fetch_token(tok))

NextTok == ProcessChar \/ ProcessEof \/ FetchToken

SpecTok == InitTok /\ [][NextTok]_vars

-----------------------------------------------------------------------------
(* The reader of a JSON text *)

RECURSIVE Flatten(_)
Flatten(parts) == IF parts = <<>> THEN <<>> ELSE Head(parts) \o Flatten(Tail(parts))

\* What stands between the brackets of the arrays read: 1 , "a"
ArrayParts == {<<49>>, <<44>>, <<34, 97, 34>>}

\* What stands between the braces of the dictionaries read: "a":1 , "a":null
DictionaryParts == {<<34, 97, 34, 58, 49>>, <<44>>,
                    <<34, 97, 34, 58, 110, 117, 108, 108>>}

\* The texts read: arrays and dictionaries, well formed or not
JsonTexts ==
    {<<91>> \o Flatten(parts) \o <<93>> : parts \in SeqsUpTo(ArrayParts, MaxItems)}
    \cup {<<123>> \o Flatten(parts) \o <<125>> :
             parts \in SeqsUpTo(DictionaryParts, MaxItems)}

InitText ==
    /\ fmt = "json"
    /\ poly = "TYPEID_AS_FIELD_NAME"
    /\ scen = Scenario("text", NoNode, NoNode, NoNode)
    /\ phase = "tdec"
    /\ enc = <<>>
    /\ \E text \in JsonTexts : dec = dec_json_new(text, poly)
    /\ ecalls = <<>>
    /\ dtodo = <<>>
    /\ dlog = <<>>
    /\ ncalls = 0
    /\ last = NoCall
    /\ tok = <<>>
    /\ tlog = <<>>
    /\ num = <<>>

NextText ==
    \/ DecodeInt \/ DecodeStringUtf8
    \/ DecodeStructBegin \/ DecodeStructFieldBegin \/ DecodeStructFieldEnd
    \/ DecodeStructEnd
    \/ DecodeArrayBegin \/ DecodeArrayElementBegin \/ DecodeArrayElementEnd
    \/ DecodeArrayEnd
    \/ DecodeDictionaryBegin \/ DecodeDictionaryElementBegin
    \/ DecodeDictionaryElementEnd \/ DecodeDictionaryEnd

SpecText == InitText /\ [][NextText]_vars

-----------------------------------------------------------------------------
(* The caller of multinum *)

\* The text of a run of decimal digits
Lit(digits) == [i \in 1..Len(digits) |-> digits[i] + 48]

Minus(text) == <<45>> \o text

\* Decimal integer literals without sign: 0, 7, 2^31 - 1, 2^31, 2^63 - 1,
\* 2^63, 2^64 - 1, 2^64, 20496382304121724020, 30000000000000000000
Naturals10 ==
    {Lit(<<0>>), Lit(<<7>>),
     Lit(<<2,1,4,7,4,8,3,6,4,7>>), Lit(<<2,1,4,7,4,8,3,6,4,8>>),
     Lit(<<9,2,2,3,3,7,2,0,3,6,8,5,4,7,7,5,8,0,7>>),
     Lit(<<9,2,2,3,3,7,2,0,3,6,8,5,4,7,7,5,8,0,8>>),
     Lit(<<1,8,4,4,6,7,4,4,0,7,3,7,0,9,5,5,1,6,1,5>>),
     Lit(<<1,8,4,4,6,7,4,4,0,7,3,7,0,9,5,5,1,6,1,6>>),
     Lit(<<2,0,4,9,6,3,8,2,3,0,4,1,2,1,7,2,4,0,2,0>>),
     Lit(<<3,0,0,0,0,0,0,0,0,0,0,0,0,0,0,0,0,0,0,0>>)}

\* The negative literals: -7, -2^31, -2^63, -2^63 - 1, -20496382304121724020
Negatives10 ==
    {Minus(Lit(<<7>>)), Minus(Lit(<<2,1,4,7,4,8,3,6,4,8>>)),
     Minus(Lit(<<9,2,2,3,3,7,2,0,3,6,8,5,4,7,7,5,8,0,8>>)),
     Minus(Lit(<<9,2,2,3,3,7,2,0,3,6,8,5,4,7,7,5,8,0,9>>)),
     Minus(Lit(<<2,0,4,9,6,3,8,2,3,0,4,1,2,1,7,2,4,0,2,0>>))}

\* Other texts: 010 -010 00 0b11 0x10 0x 1.5 1.0 1e2 +5 abc, 7 between
\* spaces, the empty text
OtherTexts ==
    {<<48, 49, 48>>, <<45, 48, 49, 48>>, <<48, 48>>, <<48, 98, 49, 49>>,
     <<48, 120, 49, 48>>, <<48, 120>>, <<49, 46, 53>>, <<49, 46, 48>>,
     <<49, 101, 50>>, <<43, 53>>, <<97, 98, 99>>, <<32, 55, 32>>, <<>>}

NumTexts == Naturals10 \cup Negatives10 \cup OtherTexts

NumKinds == {"u8", "i8", "u16", "i16", "u32", "i32", "u64", "i64"}

\* Values of the type kind, as 64-bit values: its limits, 5, 200 if it has
\* it, -1 if it is signed, 2^63 if it is uint64_t
ValuesOf(kind) ==
    {NumMin(kind), NumMax(kind), Word(5)}
    \cup (IF IsSigned(kind) THEN {WordOfInt(-1)} ELSE {})
    \cup (IF kind \notin {"i8"} THEN {Word(200)} ELSE {})
    \cup (IF kind = "u64" THEN {INT64_MIN} ELSE {})

\* The limits passed to get: those of the type, 5, 2^63 if it is uint64_t
LimitsOf(kind) ==
    {NumMin(kind), NumMax(kind), Word(5)}
    \cup (IF kind = "u64" THEN {INT64_MIN} ELSE {})

\* The doubles passed to set<double>: 0.0, -3.0, 2147483647.0, and one that
\* is no whole number of 32 bits
SetDoubles ==
    {[ok |-> TRUE, whole |-> TRUE, value |-> v] : v \in {0, -3, INT32_MAX}}
    \cup {[ok |-> TRUE, whole |-> FALSE, value |-> 0]}

InitNum ==
    /\ fmt = "json"
    /\ poly = "TYPEID_AS_FIELD_NAME"
    /\ scen = Scenario("num", NoNode, NoNode, NoNode)
    /\ phase = "num"
    /\ enc = <<>>
    /\ dec = <<>>
    /\ ecalls = <<>>
    /\ dtodo = <<>>
    /\ dlog = <<>>
    /\ ncalls = 0
    /\ last = NoCall
    /\ tok = <<>>
    /\ tlog = <<>>
    /\ num = multinum_clear

\* The caller has made the call named op with the arguments arg, which left
\* the object as m and returned ret
NumStep(op, arg, m, ret) ==
    /\ num' = m
    /\ ncalls' = ncalls + 1
    /\ last' = [op |-> op, before |-> num, arg |-> arg, ret |-> ret]
    /\ UNCHANGED <<fmt, poly, scen, enc, dec, ecalls, dtodo, dlog, tok, tlog>>

\* parse(str).  When the conversion has met undefined behaviour the build
\* decides: wrap-around arithmetic, or a trap that ends the program
NumParse ==
    /\ phase = "num" /\ ncalls < MaxNumCalls
    /\ \E text \in NumTexts :
       \E m \in {multinum_parse(text)} :
       \E build \in (IF m.undefined THEN {"wrap", "trap"} ELSE {"wrap"}) :
          /\ phase' = IF build = "trap" THEN "dead" ELSE phase
          /\ NumStep("parse", text, IF build = "trap" THEN num ELSE m, <<build>>)

\* set<NUMTYPE>(val), NUMTYPE integral
NumSet ==
    /\ phase = "num" /\ ncalls < MaxNumCalls
    /\ \E kind \in NumKinds : \E val \in ValuesOf(kind) :
          /\ NumStep("set", <<kind, val>>, multinum_set(num, kind, val), <<>>)
          /\ UNCHANGED phase

\* set<double>(val)
NumSetDouble ==
    /\ phase = "num" /\ ncalls < MaxNumCalls
    /\ \E d \in SetDoubles :
          /\ NumStep("set_double", <<d>>,
                     multinum_set_double([num EXCEPT !.level = "INVALID"], d), <<>>)
          /\ UNCHANGED phase

NumClear ==
    /\ phase = "num" /\ ncalls < MaxNumCalls
    /\ NumStep("clear", <<>>, multinum_clear, <<>>)
    /\ UNCHANGED phase

\* get<NUMTYPE>(min_value, max_value), NUMTYPE integral
NumGet ==
    /\ phase = "num" /\ ncalls < MaxNumCalls
    /\ \E kind \in NumKinds : \E min_value \in LimitsOf(kind) :
       \E max_value \in LimitsOf(kind) :
          /\ NumStep("get", <<kind, min_value, max_value>>, num,
                     multinum_get(num, kind, min_value, max_value))
          /\ UNCHANGED phase

NextNum == NumParse \/ NumSet \/ NumSetDouble \/ NumClear \/ NumGet

SpecNum == InitNum /\ [][NextNum]_vars

-----------------------------------------------------------------------------
(* Properties *)

\* No struct and no typed object of the value is extensible
RECURSIVE NonExtensible(_)
NonExtensible(v) ==
    /\ v.t \in {"struct", "typed"} => v.a = "noext"
    /\ \A i \in 1..Len(v.c) : NonExtensible(v.c[i])

\* The program has got this far without a failed assertion or an exception
\* (a codec that is not ok takes no further call, so the program never gets
\* to "done"), and the reader has obtained what it had to
ReadsBack ==
    /\ enc.ok
    /\ phase # "enc" => dec.ok /\ IsPrefixOf(dlog, Flat(scen.x))
    /\ phase = "done" => dlog = Flat(scen.x) /\ dec.stack = <<>>

\* The top frame of the decoder before the last call
FrameBefore == Top(last.before.stack)

LastOn(op, type) ==
    /\ last.op = op
    /\ last.before.stack # <<>>
    /\ FrameBefore.type = type

\* C1: binary round trip.  Whatever non-extensible value of bools, integers,
\* UTF-8 strings, binaries, structs with mandatory and optional fields,
\* arrays, dictionaries and typed objects the binary encoder writes, the
\* binary decoder driven with the same schema returns it, ends with an empty
\* frame stack and has read exactly the bytes written.
C1_BinaryRoundTrip ==
    (fmt = "bin" /\ scen.k = "rt" /\ NonExtensible(scen.v)) =>
        /\ ReadsBack
        /\ phase = "done" => dec.offset = Len(enc.out)

C1_Witness ==
    /\ fmt = "bin" /\ scen.k = "rt" /\ phase = "done"
    /\ scen.v = VStruct("noext",
                        <<VField(La, "OPTIONAL_PRESENT", VDict(<<VElem(La, VInt("u8", 5))>>)),
                          VField(Lb, "MANDATORY", VInt("u8", 9))>>)
    /\ dlog = Flat(scen.v)
    /\ dec.offset = Len(enc.out) /\ dec.offset = 12

\* C3: extensible forward compatibility of the binary codec.  When the
\* writer's extensible struct has fields f1..fn and the reader declares the
\* prefix f1..fm, m < n, the reader obtains f1..fm as written, then
\* marshal_label_id_INVALID; decode_struct_end skips the other fields and
\* leaves the read offset at the end offset of the struct, and what follows
\* the struct decodes correctly.
C3_ExtensiblePrefix ==
    (fmt = "bin" /\ scen.k = "prefix") =>
        /\ ReadsBack
        /\ phase = "done" => dec.offset = Len(enc.out)
        /\ (LastOn("decode_struct_end", "STRUCT") /\ FrameBefore.ext) =>
               dec.offset = FrameBefore.end_offset

C3_Witness ==
    /\ fmt = "bin" /\ scen.k = "prefix" /\ phase = "dec" /\ dec.ok
    /\ LastOn("decode_struct_end", "STRUCT") /\ FrameBefore.ext
    /\ FrameBefore.field_pos = 1
    /\ last.before.offset + 8 = FrameBefore.end_offset
    /\ dec.offset = FrameBefore.end_offset
    /\ dec.stack # <<>>

\* C2: JSON round trip.  Whatever value of bools, integers, UTF-8 and UTF-32
\* strings (the empty one included), structs, arrays and dictionaries of any
\* size keyed by any UTF-8 string, and typed objects in either polymorphic
\* style the JSON encoder writes, the JSON decoder driven with the same
\* schema returns it without raising an error.
C2_JsonRoundTrip ==
    (fmt = "json" /\ scen.k = "rt") => ReadsBack

\* Some dictionary of the value has an element whose key is the empty string
RECURSIVE HasEmptyKey(_)
HasEmptyKey(v) ==
    \/ v.t = "elem" /\ v.s = <<>>
    \/ \E i \in 1..Len(v.c) : HasEmptyKey(v.c[i])

\* Some UTF-8 string or dictionary key of the value holds the character NUL
RECURSIVE HasNul(_)
HasNul(v) ==
    \/ v.t \in {"str", "elem"} /\ \E i \in 1..Len(v.s) : v.s[i] = 0
    \/ \E i \in 1..Len(v.c) : HasNul(v.c[i])

\* The JSON round trip of the values without an empty dictionary key and
\* without NUL in a UTF-8 string
JsonRoundTripOfOthers ==
    (fmt = "json" /\ scen.k = "rt" /\ ~HasEmptyKey(scen.v) /\ ~HasNul(scen.v)) =>
        ReadsBack

\* The dictionary {"":5}, written by the encoder, stops the decoder
C2_Witness ==
    /\ fmt = "json" /\ scen.k = "rt" /\ phase = "dec"
    /\ scen.v = VDict(<<VElem(<<>>, VInt("u8", 5))>>)
    /\ enc.out = <<123, 34, 34, 58, 53, 125>>
    /\ last.op = "decode_dictionary_element_begin"
    /\ ~dec.ok

\* The string of the single character NUL stops the encoder
JsonNulString ==
    /\ fmt = "json" /\ scen.k = "rt" /\ scen.v = VStr(<<0>>)
    /\ last.op = "encode_string_utf8"
    /\ ~enc.ok

\* C4: optional fields, in both codecs.  A field written OPTIONAL_MISSING is
\* read with the present flag false and nothing of a value consumed (binary:
\* the flag byte only; JSON: the null only); a field written
\* OPTIONAL_PRESENT with the value x is read with the present flag true, and
\* the decode of the value that follows returns x.
C4_OptionalFields ==
    (scen.k = "rt" /\ scen.v \in StructsOver(SmallLeaves)) =>
        /\ ReadsBack
        /\ (last.op = "decode_struct_field_begin"
                /\ dec.ret # <<marshal_label_id_INVALID>>) =>
               LET field == scen.v.c[CHOOSE i \in FieldsWithId(scen.v, dec.ret[1]) : TRUE]
               IN /\ FieldsWithId(scen.v, dec.ret[1]) # {}
                  /\ dec.present <=> field.a # "OPTIONAL_MISSING"
                  /\ (field.a = "OPTIONAL_MISSING" /\ fmt = "bin") =>
                         dec.offset = last.before.offset + 1
                  /\ (field.a = "OPTIONAL_MISSING" /\ fmt = "json") =>
                         /\ dec_json_token(dec) = "C_NULL"
                         /\ ~dec.resubmit_prev_token
                  /\ dtodo # <<>>
                  /\ Head(dtodo) = IF field.a = "OPTIONAL_MISSING"
                                   THEN Task("struct_field_end", NoNode)
                                   ELSE Task("value", field.c[1])

C4_Witness ==
    /\ fmt = "json" /\ scen.k = "rt" /\ phase = "done"
    /\ scen.v = VStruct("noext", <<VField(La, "OPTIONAL_MISSING", VInt("u8", 7)),
                                   VField(Lb, "OPTIONAL_PRESENT", VStr(La))>>)
    /\ dlog = <<<<crc32(La), 0>>, <<crc32(Lb), 1>>, La, <<marshal_label_id_INVALID>>>>

\* The same in the binary codec: the flag bytes 0 and 1, then the string
BinaryOptionalFields ==
    /\ fmt = "bin" /\ scen.k = "rt" /\ phase = "done"
    /\ scen.v = VStruct("noext", <<VField(La, "OPTIONAL_MISSING", VInt("u8", 7)),
                                   VField(Lb, "OPTIONAL_PRESENT", VStr(La))>>)
    /\ dlog = <<<<crc32(La), 0>>, <<crc32(Lb), 1>>, La, <<marshal_label_id_INVALID>>>>
    /\ SubSeq(enc.out, 1, 2) = <<0, 1>>

\* C5: typed null.  In each codec, encode_typed_begin directly followed by
\* encode_typed_end is accepted and writes a form on which
\* decode_typed_begin returns marshal_label_id_INVALID.
C5_TypedNull ==
    scen.k = "null" =>
        /\ enc.ok
        /\ last.op = "decode_typed_begin" =>
               dec.ok /\ dec.ret = <<marshal_label_id_INVALID>>

\* The binary decoder returns the id of the label the writer chose
C5_Witness ==
    /\ fmt = "bin" /\ scen.k = "null" /\ scen.v.t = "typed"
    /\ last.op = "decode_typed_begin"
    /\ dec.ok /\ dec.ret = <<crc32(LT)>>

\* C6: the JSON encoder, in both polymorphic styles, writes a typed object
\* closed without a child as the token null and fails no assertion.
C6_JsonNull ==
    (fmt = "json" /\ scen.k = "null" /\ scen.v.t = "typed") =>
        /\ enc.ok
        /\ ecalls = <<>> => enc.out = TXT_null

\* TYPEID_AS_FIELD_NAME writes {"T":}
C6_Witness ==
    /\ fmt = "json" /\ poly = "TYPEID_AS_FIELD_NAME"
    /\ scen.k = "null" /\ scen.v.t = "typed"
    /\ phase = "enc" /\ ecalls = <<>> /\ enc.ok
    /\ enc.out = <<123, 34, 84, 34, 58, 125>>

\* TYPEID_AS_STRUCT_FIELD fails the assertion of encode_typed_end
JsonNullAssertion ==
    /\ fmt = "json" /\ poly = "TYPEID_AS_STRUCT_FIELD"
    /\ scen.k = "null" /\ scen.v.t = "typed"
    /\ last.op = "encode_typed_end" /\ ~enc.ok

\* C7: decode_typed_end_skip, in the binary and the JSON decoder (both
\* styles).  After decode_typed_begin(true) has returned the label id of an
\* extensible typed object, decode_typed_end_skip succeeds and consumes the
\* rest of the object, so that the value that follows decodes correctly.
C7_TypedEndSkip ==
    scen.k = "skip" => ReadsBack

\* The JSON decoder stops in decode_typed_end_skip
C7_Witness ==
    /\ fmt = "json" /\ poly = "TYPEID_AS_FIELD_NAME" /\ scen.k = "skip"
    /\ last.op = "decode_typed_end_skip"
    /\ last.before.ok /\ ~dec.ok

\* The binary decoder does what C7 says
BinaryTypedEndSkip ==
    (fmt = "bin" /\ scen.k = "skip") =>
        /\ ReadsBack
        /\ LastOn("decode_typed_end_skip", "TYPED") =>
               dec.offset = FrameBefore.end_offset

\* C8: the documented pattern decode_typed_begin(true);
\* decode_typed_end_skip(); decode_typed_end() on an extensible typed object of
\* a type unknown to the reader raises no exception and leaves the frame stack
\* as it was before decode_typed_begin.
C8_DocumentedPattern ==
    scen.k = "skipend" => ReadsBack

\* decode_typed_end_skip has closed the frame: decode_typed_end finds none
C8_Witness ==
    /\ fmt = "bin" /\ scen.k = "skipend"
    /\ last.op = "decode_typed_end"
    /\ last.before.ok /\ last.before.stack = <<>>
    /\ ~dec.ok

\* C9 as claimed: decode_typed_end of the binary decoder on an extensible
\* typed frame skips the remaining bytes and succeeds when the read offset is
\* below the end offset of the frame, and raises an error when it is above,
\* as decode_struct_end does on an extensible struct.
C9_TypedEndAsStructEnd ==
    (fmt = "bin" /\ LastOn("decode_typed_end", "TYPED") /\ FrameBefore.ext) =>
        /\ last.before.offset < FrameBefore.end_offset =>
               dec.ok /\ dec.offset = FrameBefore.end_offset
        /\ last.before.offset > FrameBefore.end_offset => ~dec.ok

\* C9: decode_typed_end of the binary decoder on an extensible typed frame
\* succeeds exactly when the read offset is the end offset of the frame and
\* raises an error when it is below or above; it skips nothing.
\* decode_struct_end on an extensible struct skips the remaining bytes when
\* the offset is below the end offset and raises an error when it is above.
C9_TypedEndExact ==
    /\ (fmt = "bin" /\ LastOn("decode_typed_end", "TYPED") /\ FrameBefore.ext) =>
           /\ dec.ok <=> last.before.offset = FrameBefore.end_offset
           /\ dec.offset = last.before.offset
    /\ (fmt = "bin" /\ LastOn("decode_struct_end", "STRUCT") /\ FrameBefore.ext) =>
           /\ dec.ok <=> last.before.offset <= FrameBefore.end_offset
           /\ dec.ok => dec.offset = FrameBefore.end_offset

\* The reader has left a byte of the typed object unread
C9_Witness ==
    /\ fmt = "bin" /\ scen.k = "tunder"
    /\ LastOn("decode_typed_end", "TYPED") /\ FrameBefore.ext
    /\ last.before.ok
    /\ last.before.offset + 1 = FrameBefore.end_offset
    /\ ~dec.ok

\* The reader has read a byte more than the typed object holds
TypedEndAbove ==
    /\ fmt = "bin" /\ scen.k = "tover"
    /\ LastOn("decode_typed_end", "TYPED") /\ FrameBefore.ext
    /\ last.before.offset > FrameBefore.end_offset
    /\ ~dec.ok

StructEndBelow ==
    /\ fmt = "bin" /\ scen.k = "sunder"
    /\ LastOn("decode_struct_end", "STRUCT") /\ FrameBefore.ext
    /\ last.before.offset < FrameBefore.end_offset
    /\ dec.ok

StructEndAbove ==
    /\ fmt = "bin" /\ scen.k = "sover"
    /\ LastOn("decode_struct_end", "STRUCT") /\ FrameBefore.ext
    /\ last.before.offset > FrameBefore.end_offset
    /\ ~dec.ok

\* The types of the frames of a stack, bottom first
Types(stack) == [i \in 1..Len(stack) |-> stack[i].type]

\* The frame at i is directly above a frame of one of the types in below;
\* "ROOT" stands for the bottom of the stack
Above(stack, i, below) ==
    (IF i = 1 THEN "ROOT" ELSE stack[i - 1].type) \in below

Shape(stack) ==
    \A i \in 1..Len(stack) :
        /\ stack[i].type \in {"STRUCT", "ARRAY", "DICTIONARY", "TYPED"} =>
               Above(stack, i, {"ROOT", "FIELD", "ARRAY_ELEMENT",
                                "DICTIONARY_ELEMENT", "TYPED"})
        /\ stack[i].type \in {"FIELD", "FIELD_MISSING"} => Above(stack, i, {"STRUCT"})
        /\ stack[i].type = "ARRAY_ELEMENT" => Above(stack, i, {"ARRAY"})
        /\ stack[i].type = "DICTIONARY_ELEMENT" => Above(stack, i, {"DICTIONARY"})

\* C10: the shape of the frame stack.  Whatever calls a codec has accepted,
\* every STRUCT, ARRAY, DICTIONARY or TYPED frame of its stack is at the
\* bottom or directly above a FIELD, ARRAY_ELEMENT, DICTIONARY_ELEMENT or TYPED
\* frame, every FIELD or FIELD_MISSING directly above a STRUCT, every
\* ARRAY_ELEMENT directly above an ARRAY, every DICTIONARY_ELEMENT directly
\* above a DICTIONARY.
C10_FrameShape ==
    /\ enc.ok => Shape(enc.stack)
    /\ (phase \in {"dec", "fdec", "done"} /\ dec.ok) => Shape(dec.stack)

\* The binary encoder has accepted a struct as the child of a dictionary
C10_Witness ==
    /\ fmt = "bin" /\ phase = "fenc" /\ enc.ok
    /\ last.op = "encode_struct_begin"
    /\ Types(enc.stack) = <<"DICTIONARY", "STRUCT">>

\* The JSON encoder has accepted a dictionary as the child of an array
JsonDictionaryInArray ==
    /\ fmt = "json" /\ phase = "fenc" /\ enc.ok
    /\ last.op = "encode_dictionary_begin"
    /\ Types(enc.stack) = <<"ARRAY", "DICTIONARY">>

\* The values a caller can begin or encode as the child of a frame
ValueCalls ==
    {"encode_bool", "encode_int", "encode_string_utf8", "encode_u32string",
     "encode_varsize_binary", "encode_struct_begin", "encode_array_begin",
     "encode_dictionary_begin", "encode_typed_begin"}

\* The encoder e has a TYPED frame on top in which a child value has been
\* completed.  Binary: bytes follow the type id and the size indicator of the
\* frame.  JSON: the text no longer ends with the colon after the type id
\* (TYPEID_AS_FIELD_NAME), the struct that carries the type id has been
\* opened (TYPEID_AS_STRUCT_FIELD) and, the frame being on top again, closed.
TypedChildDone(e) ==
    /\ e.ok /\ e.stack # <<>> /\ Top(e.stack).type = "TYPED"
    /\ IF fmt = "bin"
       THEN e.cur > Top(e.stack).pos + (IF Top(e.stack).ext THEN 4 ELSE 0)
       ELSE ~e.is_typed /\ (poly = "TYPEID_AS_FIELD_NAME" => Last(e.out) # 58)

\* C11: a TYPED frame holds at most one child value, and the codecs enforce
\* it.  Once a child value, terminal or container, has been completed inside
\* a TYPED frame, the call that begins or encodes a second value while that
\* frame is on top of the stack is rejected by an assertion or an error.
C11_TypedOneChild ==
    (phase \in {"enc", "fenc"} /\ last.op \in ValueCalls
        /\ TypedChildDone(last.before)) => ~enc.ok

\* The binary encoder has accepted a second integer in a typed frame
C11_Witness ==
    /\ fmt = "bin" /\ phase = "fenc"
    /\ last.op = "encode_int" /\ TypedChildDone(last.before)
    /\ Len(last.before.out) = 5
    /\ enc.ok /\ Len(enc.out) = 6
    /\ Types(enc.stack) = <<"TYPED">>

\* The JSON encoder has accepted a second struct in a typed frame
JsonTypedSecondChild ==
    /\ fmt = "json" /\ phase = "fenc"
    /\ last.op = "encode_struct_begin" /\ TypedChildDone(last.before)
    /\ enc.ok
    /\ Types(enc.stack) = <<"TYPED", "STRUCT">>

\* The calls that close a frame of the decoder, with the kind of frame each
\* one closes
EndKind ==
    [decode_struct_end |-> "STRUCT", decode_struct_field_end |-> "FIELD",
     decode_array_end |-> "ARRAY", decode_array_element_end |-> "ARRAY_ELEMENT",
     decode_dictionary_end |-> "DICTIONARY",
     decode_dictionary_element_end |-> "DICTIONARY_ELEMENT",
     decode_typed_end |-> "TYPED", decode_typed_end_skip |-> "TYPED"]

\* The last call was a closing call made on an empty stack or on a top frame
\* of another kind
Mismatched ==
    /\ phase \in {"dec", "fdec", "done"}
    /\ last.op \in DOMAIN EndKind
    /\ last.before.ok
    /\ last.before.stack = <<>> \/ Top(last.before.stack).type # EndKind[last.op]

\* How much of the input the decoder d has consumed
Consumed(d) ==
    IF fmt = "bin" THEN <<d.offset>> ELSE <<d.tokenizer, d.resubmit_prev_token>>

\* The last call raised exception_marshal and changed neither the frame
\* stack nor the amount of input consumed
RaisedUnchanged ==
    /\ ~dec.ok /\ ~dec.aborted
    /\ dec.stack = last.before.stack
    /\ Consumed(dec) = Consumed(last.before)

\* C12: LIFO discipline in the decoders.  decode_struct_end,
\* decode_struct_field_end, decode_array_end, decode_array_element_end,
\* decode_dictionary_end, decode_dictionary_element_end, decode_typed_end or
\* decode_typed_end_skip called when the stack is empty or the top frame is
\* not of the matching kind raises exception_marshal, and the frame stack and
\* the amount of input consumed are the same after the failed call as before.
C12_DecoderLifo ==
    Mismatched => RaisedUnchanged

\* The JSON decoder, right after decode_typed_begin in the
\* TYPEID_AS_STRUCT_FIELD style, stops on assert(!m_is_typed) in
\* decode_typed_end called with the STRUCT frame on top
C12_Witness ==
    /\ fmt = "json" /\ poly = "TYPEID_AS_STRUCT_FIELD" /\ phase = "fdec"
    /\ Mismatched
    /\ last.op = "decode_typed_end"
    /\ last.before.is_typed
    /\ Types(last.before.stack) = <<"TYPED", "STRUCT">>
    /\ dec.aborted

\* The same in every other state: the binary decoder, and the JSON decoder
\* when m_is_typed is not set
DecoderLifoOfOthers ==
    (Mismatched /\ (fmt = "json" => ~last.before.is_typed)) => RaisedUnchanged

\* The binary decoder refuses decode_array_end on an empty stack
BinaryArrayEndOnEmpty ==
    /\ fmt = "bin" /\ phase = "fdec" /\ Mismatched
    /\ last.op = "decode_array_end" /\ last.before.stack = <<>>
    /\ RaisedUnchanged

\* The JSON decoder refuses decode_struct_end inside an array
JsonStructEndInArray ==
    /\ fmt = "json" /\ phase = "fdec" /\ Mismatched
    /\ last.op = "decode_struct_end" /\ Types(last.before.stack) = <<"ARRAY">>
    /\ RaisedUnchanged

\* The calls that begin an element, with the kind of frame they count in and
\* the call that closes that frame
CountedKind ==
    [decode_array_element_begin |-> "ARRAY",
     decode_dictionary_element_begin |-> "DICTIONARY",
     decode_array_end |-> "ARRAY", decode_dictionary_end |-> "DICTIONARY"]

\* The last call of the binary decoder was op, made on a top frame of the
\* kind op counts in
CountedCall(ops) ==
    /\ fmt = "bin" /\ phase \in {"dec", "fdec", "done"}
    /\ last.op \in ops
    /\ last.before.ok /\ last.before.stack # <<>>
    /\ FrameBefore.type = CountedKind[last.op]

\* The count n at the read offset of the decoder d
WireCount(d) == le_unsigned(SubSeq(d.inp, d.offset + 1, d.offset + 4))

\* The first two parts of C13, call by call: fields_count is n, field_pos the
\* number of elements begun
ElementCounting ==
    /\ (fmt = "bin" /\ last.op \in {"decode_array_begin", "decode_dictionary_begin"}
            /\ last.before.ok /\ dec.ok) =>
           /\ Top(dec.stack).fields_count = WireCount(last.before)
           /\ Top(dec.stack).field_pos = 0
           /\ dec.offset = last.before.offset + 4
    /\ CountedCall({"decode_array_element_begin", "decode_dictionary_element_begin"}) =>
           IF FrameBefore.field_pos < FrameBefore.fields_count
           THEN /\ last.op = "decode_array_element_begin" => dec.ok
                /\ dec.ok =>
                       /\ dec.ret[1] = 1
                       /\ Len(dec.stack) = Len(last.before.stack) + 1
                       /\ dec.stack[Len(last.before.stack)] =
                              [FrameBefore EXCEPT !.field_pos = @ + 1]
           ELSE /\ dec.ok /\ dec.ret = <<0>>
                /\ dec.offset = last.before.offset
                /\ dec.stack = last.before.stack
    /\ (CountedCall({"decode_array_end", "decode_dictionary_end"})
            /\ FrameBefore.field_pos < FrameBefore.fields_count) => ~dec.ok

\* No other call changes the count of an ARRAY or DICTIONARY frame that stays
\* on the stack
CountKept ==
    (fmt = "bin" /\ phase \in {"dec", "fdec"}) =>
        \A i \in 1..Len(dec.stack) :
            (/\ dec.stack[i].type \in {"ARRAY", "DICTIONARY"}
             /\ i <= Len(dec'.stack)
             /\ ~(i = Len(dec.stack)
                    /\ last'.op \in {"decode_array_element_begin",
                                     "decode_dictionary_element_begin"})) =>
                dec'.stack[i] = dec.stack[i]

\* C13: element counting of the binary decoder.  After decode_array_begin
\* (decode_dictionary_begin) has read the count n from the wire,
\* decode_array_element_begin (decode_dictionary_element_begin) returns true
\* for exactly the first n calls made on that frame and false on every later
\* call, reading no bytes when it returns false; decode_array_end
\* (decode_dictionary_end) raises exception_marshal if fewer than n elements
\* were begun.  (A call among the first n that cannot read the key of the
\* dictionary element raises exception_marshal and returns nothing.)
C13_ElementCounting ==
    []ElementCounting /\ [][CountKept]_vars

\* The array of one element: the second decode_array_element_begin returns
\* false and reads nothing
C13_Witness ==
    /\ CountedCall({"decode_array_element_begin"}) /\ phase = "fdec"
    /\ FrameBefore.fields_count = 1 /\ FrameBefore.field_pos = 1
    /\ dec.ok /\ dec.ret = <<0>>
    /\ dec.offset = 4

\* decode_array_end before the element has been begun
ArrayEndEarly ==
    /\ CountedCall({"decode_array_end"}) /\ phase = "fdec"
    /\ FrameBefore.fields_count = 1 /\ FrameBefore.field_pos = 0
    /\ ~dec.ok

\* The dictionary of two elements read to its end
DictionaryOfTwo ==
    /\ CountedCall({"decode_dictionary_element_begin"}) /\ phase = "dec"
    /\ FrameBefore.fields_count = 2 /\ FrameBefore.field_pos = 2
    /\ dec.ok /\ dec.ret = <<0>>

\* The decoder has just begun the array or dictionary that the reader's next
\* step, the loop over the elements, is about
BegunCounted ==
    /\ phase = "dec" /\ scen.k = "rt"
    /\ last.op \in {"decode_array_begin", "decode_dictionary_begin"}
    /\ dec.ok
    /\ dtodo # <<>> /\ Head(dtodo).op \in {"elems", "delems"}

\* C14: decode_array_begin and decode_dictionary_begin return either
\* marshal_array_SIZE_UNKNOWN or the expected number of elements: a value
\* returned that is not marshal_array_SIZE_UNKNOWN is the number of times
\* decode_array_element_begin (decode_dictionary_element_begin) then returns
\* true on that frame, which in a round trip is the number of elements
\* written.
C14_SizeHint ==
    BegunCounted =>
        \/ dec.ret = <<marshal_array_SIZE_UNKNOWN>>
        \/ dec.ret = <<Len(Head(dtodo).sch.c)>>

\* The binary decoder returns 0 for the array of two elements
C14_Witness ==
    /\ fmt = "bin" /\ BegunCounted
    /\ scen.v = VArray(<<VInt("u8", 1), VInt("u8", 2)>>)
    /\ last.op = "decode_array_begin"
    /\ Top(dec.stack).fields_count = 2
    /\ dec.ret = <<0>>

\* ... and then begins two elements
BinaryArrayOfTwoRead ==
    /\ fmt = "bin" /\ phase = "done"
    /\ scen.v = VArray(<<VInt("u8", 1), VInt("u8", 2)>>)
    /\ dlog = <<<<1>>, <<1>>, <<1>>, <<2>>, <<0>>>>

\* The JSON decoder returns marshal_array_SIZE_UNKNOWN
JsonSizeUnknown ==
    (fmt = "json" /\ BegunCounted) => dec.ret = <<marshal_array_SIZE_UNKNOWN>>

\* The reader of the scenario declares its first field mandatory
DeclaresMandatory == scen.r.c[1].a = "MANDATORY"

\* The first field of the struct has been decoded without error
FirstFieldDecoded ==
    \/ phase = "done"
    \/ phase = "dec" /\ last.op = "decode_struct_field_end" /\ dec.ok

\* C15: the JSON decoder on a struct field whose value is the token null.  If
\* the field is declared optional in the field infos passed to
\* decode_struct_begin, decode_struct_field_begin reports it as
\* optional-missing (present flag false); if the field is declared
\* mandatory, decoding it raises a decode error, whether or not the caller
\* passed a present-flag pointer to decode_struct_field_begin.
C15_NullField ==
    (fmt = "json" /\ scen.k = "nullfield") =>
        /\ enc.ok
        /\ (~DeclaresMandatory /\ PassesFlag(scen.r)
                /\ last.op = "decode_struct_field_begin"
                /\ Top(last.before.stack).items = 0) =>
               dec.ok /\ dec.ret = <<crc32(La)>> /\ ~dec.present
        /\ DeclaresMandatory => ~FirstFieldDecoded

\* The reader that declares the field mandatory and passes its flag gets the
\* field as missing and reads the struct to its end
C15_Witness ==
    /\ fmt = "json" /\ scen.k = "nullfield" /\ phase = "done"
    /\ DeclaresMandatory /\ scen.r.n = 0
    /\ Len(scen.v.c) = 2
    /\ dec.ok
    /\ dlog = <<<<crc32(La), 0>>, <<crc32(Lb), 1>>, <<9>>, <<marshal_label_id_INVALID>>>>

\* The other readers: a field declared optional is reported missing; the
\* reader that decodes the value of a mandatory field whatever the flag, or
\* passes no flag, gets an error from the decode of the value
NullFieldOfOthers ==
    (fmt = "json" /\ scen.k = "nullfield") =>
        /\ enc.ok
        /\ (~DeclaresMandatory /\ PassesFlag(scen.r)
                /\ last.op = "decode_struct_field_begin"
                /\ Top(last.before.stack).items = 0) =>
               dec.ok /\ dec.ret = <<crc32(La)>> /\ ~dec.present
        /\ (DeclaresMandatory /\ scen.r.n # 0) => ~FirstFieldDecoded

\* The null of an optional field reported as missing
NullOptionalMissing ==
    /\ fmt = "json" /\ scen.k = "nullfield"
    /\ ~DeclaresMandatory /\ scen.r.n = 0
    /\ last.op = "decode_struct_field_begin" /\ Top(last.before.stack).items = 0
    /\ dec.ok /\ ~dec.present

\* The reader that passes no flag stops in the decode of the value
NullMandatoryNoFlag ==
    /\ fmt = "json" /\ scen.k = "nullfield"
    /\ DeclaresMandatory /\ scen.r.n = 1
    /\ last.op = "decode_int" /\ last.before.ok /\ ~dec.ok
    /\ dec_json_token(dec) = "C_NULL"

\* What the reader has obtained of the fields it knows: the log without the
\* entries of the field x
KnownLog == SelectSeq(dlog, LAMBDA e : e # <<crc32(Lx), 1>>)

\* The text of the scenario holds a field unknown to the reader
HasUnknown == Len(scen.v.c) > Len(scen.x.c)

\* C16: latitude of the JSON decoder.  For a JSON object that holds the
\* declared fields in any permutation together with fields unknown to the
\* reader at any position (first, between known fields, or last), the
\* documented loop - decode_struct_field_begin, decode of the value when the
\* id returned is known, decode_struct_field_end, until
\* marshal_label_id_INVALID, then decode_struct_end - completes without
\* error and yields the values of all known fields.
C16_Latitude ==
    (fmt = "json" /\ scen.k = "latitude") =>
        /\ enc.ok
        /\ phase # "enc" => dec.ok /\ IsPrefixOf(KnownLog, Flat(scen.x))
        /\ phase = "done" => KnownLog = Flat(scen.x) /\ dec.stack = <<>>

\* The field x comes first: its value 7 is still there when the reader asks
\* for the next field, and decode_struct_field_begin finds no comma
C16_Witness ==
    /\ fmt = "json" /\ scen.k = "latitude" /\ HasUnknown
    /\ scen.v.c[1].s = Lx /\ scen.v.c[1].c[1] = VInt("u8", 7)
    /\ last.op = "decode_struct_field_begin"
    /\ last.before.ok /\ Types(last.before.stack) = <<"STRUCT">>
    /\ Top(last.before.stack).items = 1
    /\ dlog = <<<<crc32(Lx), 1>>>>
    /\ ~dec.ok /\ ~dec.aborted
    /\ dec_json_token(dec) = "C_NUMBER"

\* The known fields in either order, without unknown fields, are read
LatitudeOfPermutations ==
    (fmt = "json" /\ scen.k = "latitude" /\ ~HasUnknown) =>
        /\ enc.ok
        /\ phase # "enc" => dec.ok /\ IsPrefixOf(dlog, Flat(scen.x))
        /\ phase = "done" => dlog = Flat(scen.x) /\ dec.stack = <<>>

\* No text with an unknown field is read to its end
LatitudeUnknownFails ==
    (fmt = "json" /\ scen.k = "latitude" /\ HasUnknown) => phase # "done"

\* The fields b, a read in the order of the text
LatitudeSwapped ==
    /\ fmt = "json" /\ scen.k = "latitude" /\ ~HasUnknown /\ phase = "done"
    /\ scen.v.c[1].s = Lb
    /\ dlog = <<<<crc32(Lb), 1>>, La, <<crc32(La), 1>>, <<7>>, <<marshal_label_id_INVALID>>>>

\* The binary decoder was asked for the next field of an extensible struct
\* with the read offset at the end offset of the frame, the reader having
\* declared more fields than it has got
AtEndOfFewer ==
    /\ fmt = "bin" /\ LastOn("decode_struct_field_begin", "STRUCT")
    /\ last.before.ok
    /\ FrameBefore.ext
    /\ FrameBefore.field_pos < FrameBefore.fields_count
    /\ last.before.offset = FrameBefore.end_offset

\* C17: the binary decoder on an extensible struct whose wire payload holds
\* fewer fields than the reader declared.  Once the read offset equals the
\* end offset of the frame, decode_struct_field_begin returns
\* marshal_label_id_INVALID without reading any byte (not even the presence
\* flag of an optional field) and without raising an error, and
\* decode_struct_end then succeeds; the reader has obtained the fields
\* written and what follows the struct.
C17_FewerFields ==
    /\ AtEndOfFewer =>
           /\ dec.ok /\ dec.ret = <<marshal_label_id_INVALID>>
           /\ dec.offset = last.before.offset
           /\ dec.stack = last.before.stack
    /\ (fmt = "bin" /\ LastOn("decode_struct_end", "STRUCT") /\ last.before.ok
            /\ FrameBefore.ext /\ last.before.offset = FrameBefore.end_offset) =>
           dec.ok /\ dec.offset = last.before.offset
    /\ (fmt = "bin" /\ scen.k = "fewer") =>
           /\ ReadsBack
           /\ phase = "done" => dec.offset = Len(enc.out)

\* The writer wrote the field a only; the reader declares an optional field
\* b after it, whose presence flag is not read: the byte at the read offset
\* belongs to the value that follows the struct
C17_Witness ==
    /\ scen.k = "fewer" /\ AtEndOfFewer
    /\ FrameBefore.field_pos = 1 /\ FrameBefore.fields_count = 3
    /\ marshal_label_info_is_optional(FrameBefore.field_infos[2])
    /\ dec.ok /\ dec.ret = <<marshal_label_id_INVALID>>
    /\ dec.offset = last.before.offset
    /\ dec.offset < Len(dec.inp)

\* ... and the reader gets to the end of the input
FewerFieldsDone ==
    /\ fmt = "bin" /\ scen.k = "fewer" /\ phase = "done"
    /\ Len(scen.v.c) = 2 /\ scen.v.c[1].t = "field" /\ scen.v.c[1].s = Lx
    /\ Len(scen.r.c[1].c[1].c) = 3 /\ Len(scen.v.c[1].c[1].c) = 1
    /\ dec.offset = Len(enc.out)

\* The four little-endian bytes of n
FourBytes(n) == [i \in 1..4 |-> (n \div Pow(256, i - 1)) % 256]

\* The binary encoder has closed an extensible struct or typed frame
ClosedExtensible ==
    /\ fmt = "bin" /\ phase \in {"enc", "fenc"}
    /\ last.op \in {"encode_struct_end", "encode_typed_end"}
    /\ last.before.ok /\ last.before.stack # <<>>
    /\ FrameBefore.type = (IF last.op = "encode_struct_end" THEN "STRUCT" ELSE "TYPED")
    /\ FrameBefore.ext

\* C18: the size indicator of the binary encoder.  For every extensible
\* struct or typed frame at any nesting depth (extensible frames nested in
\* extensible frames included), after its encode_struct_end or
\* encode_typed_end the four little-endian bytes at the indicator position
\* of the frame hold exactly the number of bytes written between the end of
\* the indicator and the position at which the call was made; no other byte
\* written before is changed and the write position is restored to where it
\* was when the call was made.
C18_SizeIndicator ==
    ClosedExtensible =>
        LET pos == FrameBefore.pos
            end == last.before.cur
        IN /\ enc.ok
           /\ SubSeq(enc.out, pos + 1, pos + 4) = FourBytes(end - (pos + 4))
           /\ Len(enc.out) = Len(last.before.out)
           /\ \A i \in 1..Len(enc.out) :
                  i \notin (pos + 1)..(pos + 4) => enc.out[i] = last.before.out[i]
           /\ enc.cur = end /\ end = Len(enc.out)
           /\ enc.stack = Pop(last.before.stack)

\* The extensible typed object that holds an extensible struct: 6 bytes in
\* the struct, 10 in the typed object
C18_Witness ==
    /\ ClosedExtensible /\ phase = "enc"
    /\ scen.v = VTyped(LT, "ext",
                       VStruct("ext", <<VField(La, "OPTIONAL_PRESENT", VStr(La))>>))
    /\ last.op = "encode_typed_end"
    /\ FrameBefore.pos = 4
    /\ SubSeq(enc.out, 5, 8) = <<10, 0, 0, 0>>
    /\ SubSeq(enc.out, 9, 12) = <<6, 0, 0, 0>>
    /\ SubSeq(enc.out, 13, 18) = <<1, 1, 0, 0, 0, 97>>
    /\ enc.cur = 18

\* The number of bytes UTF-8 needs for the code point
Utf8Width(cp) ==
    IF cp < 128 THEN 1 ELSE IF cp < 2048 THEN 2 ELSE IF cp < 65536 THEN 3 ELSE 4

RECURSIVE Utf8Length(_)
Utf8Length(s) == IF s = <<>> THEN 0 ELSE Utf8Width(Head(s)) + Utf8Length(Tail(s))

\* The UTF-32 string of the scenario
WrittenU32 == IF scen.v.t = "u32str" THEN scen.v.s ELSE scen.v.c[1].c[1].s

U32Written == fmt = "bin" /\ scen.k = "u32rt" /\ last.op = "encode_u32string"

U32Read == fmt = "bin" /\ scen.k = "u32rt" /\ last.op = "decode_u32string"

\* The prefix is the UTF-8 length and the string is read back whole
U32RoundTrip ==
    /\ U32Written =>
           /\ enc.ok
           /\ SubSeq(enc.out, last.before.cur + 1, last.before.cur + 4)
                  = FourBytes(Utf8Length(WrittenU32))
           /\ enc.cur = last.before.cur + 4 + Utf8Length(WrittenU32)
    /\ U32Read =>
           /\ dec.ok
           /\ dec.ret = WrittenU32
           /\ dec.offset = last.before.offset + 4 + Utf8Length(WrittenU32)

\* C19: round trip of the UTF-32 strings in the binary codec.  For every
\* UTF-32 string s, encode_u32string writes the UTF-8 byte length of s as
\* the length prefix, and decode_u32string over those bytes returns s and
\* consumes exactly 4 plus that many bytes, wherever the code points of 2, 3
\* and 4 bytes stand in s: first, in the middle or last, followed by other
\* characters or not.
C19_U32RoundTrip == U32RoundTrip

\* e-acute and then a: the length is 3, the decoder returns e-acute alone
\* and has consumed 4 + 2 bytes
C19_Witness ==
    /\ U32Read /\ scen.v = VU32(<<233, 97>>)
    /\ enc.out = <<3, 0, 0, 0, 195, 169, 97>>
    /\ dec.ok /\ dec.ret = <<233>> /\ dec.offset = 6

\* No code point but the last needs more than one byte
MultiByteLastOnly(s) == \A i \in 1..(Len(s) - 1) : s[i] < 128

\* The strings whose only multi-byte code point is the last one are read
\* back whole
U32RoundTripOfOthers ==
    (fmt = "bin" /\ scen.k = "u32rt" /\ MultiByteLastOnly(WrittenU32)) => U32RoundTrip

\* Two characters and then the emoji: 4 + 6 bytes, read back whole
U32EmojiLast ==
    /\ U32Read /\ scen.v = VU32(<<97, 97, 128512>>)
    /\ enc.out = <<6, 0, 0, 0, 97, 97, 240, 159, 152, 128>>
    /\ dec.ok /\ dec.ret = <<97, 97, 128512>> /\ dec.offset = 10

\* The string that is not read whole shifts the value that follows it
U32ShiftsNext ==
    /\ fmt = "bin" /\ scen.k = "u32rt" /\ scen.v = Wrap(VU32(<<8364, 97>>))
    /\ last.op = "decode_int" /\ last.before.offset = 7
    /\ enc.out = <<4, 0, 0, 0, 226, 130, 172, 97, 9>>
    /\ dec.ok /\ dec.ret = <<97>>

\* Walking the bytes character by character, a multi-byte start byte is met
\* that has fewer bytes behind it than it requires
RECURSIVE Lacks(_)
Lacks(bytes) ==
    IF bytes = <<>> THEN FALSE
    ELSE LET k == count_utf8_following_chars(Head(bytes))
         IN IF k > Len(bytes) - 1 THEN TRUE
            ELSE Lacks(SubSeq(bytes, k + 2, Len(bytes)))

\* decode_u32string has been called on bytes written with their length
CutRead ==
    /\ fmt = "bin" /\ scen.k = "u32cut"
    /\ last.op = "decode_u32string" /\ last.before.ok

\* The end of the declared bytes and the declared bytes
DeclaredEnd == last.before.offset + 4 + WireCount(last.before)

DeclaredBytes == SubSeq(last.before.inp, last.before.offset + 5, DeclaredEnd)

RaisedWithin == ~dec.ok /\ ~dec.aborted /\ dec.offset <= DeclaredEnd

\* C20: decode_u32string of the binary decoder raises exception_marshal
\* whenever a multi-byte UTF-8 start byte occurs with fewer continuation
\* bytes left inside the declared byte length than it requires, and it never
\* reads a byte beyond the declared length.
C20_U32Truncated ==
    CutRead =>
        /\ Lacks(DeclaredBytes) => ~dec.ok /\ ~dec.aborted
        /\ dec.offset <= DeclaredEnd

\* The start byte C3 alone in a string of length 1, the byte A9 behind the
\* string: e-acute is returned and 4 + 2 bytes are consumed
C20_Witness ==
    /\ CutRead /\ scen.v = Followed(VBin(<<195>>), 169)
    /\ last.before.inp = <<1, 0, 0, 0, 195, 169>>
    /\ Lacks(DeclaredBytes) /\ DeclaredEnd = 5
    /\ dec.ok /\ dec.ret = <<233>> /\ dec.offset = 6

\* The first byte of the string is a start byte that lacks two bytes or more
LacksTwoAtStart ==
    /\ DeclaredBytes # <<>>
    /\ count_utf8_following_chars(Head(DeclaredBytes)) > Len(DeclaredBytes)

\* Such a start byte raises the exception with nothing read behind the
\* string; whole characters raise none
TruncatedOfOthers ==
    CutRead =>
        /\ LacksTwoAtStart => RaisedWithin
        /\ ~Lacks(DeclaredBytes) => dec.ok /\ dec.offset <= DeclaredEnd

\* F0 9F in a string of length 2: the exception is raised after the start byte
TruncatedRaised ==
    /\ CutRead /\ scen.v = Followed(VBin(<<240, 159>>), 9)
    /\ LacksTwoAtStart /\ RaisedWithin /\ dec.offset = 5

\* The byte behind the string is no continuation byte: the assertion on the
\* character read fails
TruncatedAsserts ==
    /\ CutRead /\ scen.v = Followed(VBin(<<226, 130>>), 9)
    /\ dec.aborted /\ dec.offset = 7 /\ DeclaredEnd = 6

\* A start byte behind a multi-byte character is not read at all
TruncatedUnread ==
    /\ CutRead /\ scen.v = VBin(<<195, 169, 226>>)
    /\ dec.ok /\ dec.ret = <<233>> /\ dec.offset = 6 /\ DeclaredEnd = 7

-----------------------------------------------------------------------------
(* Properties of the tokenizer *)

\* The characters the program has given to its json_tokenizer
RECURSIVE FedOf(_)
FedOf(log) ==
    IF log = <<>> THEN <<>>
    ELSE IF Head(log).op \in {"json_tokenizer", "process_char"}
    THEN <<Head(log).ch>> \o FedOf(Tail(log))
    ELSE FedOf(Tail(log))

\* The text the tokenizer has been given: through its source, or character
\* by character
Given == IF phase = "pull" THEN tok.src ELSE FedOf(tlog)

\* The calls the program has made but the last
Earlier == SubSeq(tlog, 1, Len(tlog) - 1)

\* The last call is the one that tells the tokenizer of the end of its text:
\* the first fetch_token that reads up to the end, or the first process_eof
AtEndOfText ==
    /\ phase \in {"push", "pull"} /\ tok.ok
    /\ \/ last.op = "process_eof" /\ \A i \in 1..Len(Earlier) : Earlier[i].op # "process_eof"
       \/ last.op = "fetch_token" /\ last.before.state # "REACHED_EOF"
                                  /\ tok.state = "REACHED_EOF"

\* The text is a block comment that is not closed
Unclosed(text) ==
    /\ Len(text) >= 2 /\ text[1] = 47 /\ text[2] = 42
    /\ ~\E i \in 3..(Len(text) - 1) : text[i] = 42 /\ text[i + 1] = 47

\* C21: the unterminated block comment.  When the input ends inside a block
\* comment opened by /* and not closed by */, the tokenizer reports an
\* error: json_tokenizer::process_eof returns C_ERROR and
\* json_tokenizer_sourced::fetch_token returns C_ERROR, not
\* C_NEED_MORE_CHARS and not C_NOTHING_MORE.
C21_UnclosedComment ==
    (AtEndOfText /\ Unclosed(Given)) => tok.last_process_ret = "C_ERROR"

\* fetch_token on the text /*a returns C_NOTHING_MORE
C21_Witness ==
    /\ phase = "pull" /\ tok.src = <<47, 42, 97>>
    /\ AtEndOfText /\ Unclosed(Given)
    /\ Len(tlog) = 2
    /\ tok.last_process_ret = "C_NOTHING_MORE" /\ tok.state = "REACHED_EOF"

\* process_eof after the characters /*a returns C_NEED_MORE_CHARS
UnclosedCommentFed ==
    /\ phase = "push" /\ Given = <<47, 42, 97>>
    /\ AtEndOfText /\ Unclosed(Given)
    /\ last.before.sub_state = "IN_COMMENT_SLASHSTAR_INSIDE"
    /\ tok.last_process_ret = "C_NEED_MORE_CHARS" /\ tok.state = "REACHED_EOF"

\* No unclosed comment without a star inside is reported as an error
UnclosedNeverReported ==
    (AtEndOfText /\ Unclosed(Given) /\ \A i \in 3..Len(Given) : Given[i] # 42) =>
        tok.last_process_ret = (IF phase = "pull" THEN "C_NOTHING_MORE"
                                ELSE "C_NEED_MORE_CHARS")

\* The calls made on the tokenizer, the construction left out
CallsMade == 2..Len(tlog)

\* The call i has moved the tokenizer to the aborted state
MovedToAborted(i) ==
    tlog[i].ret = "C_ERROR" /\ tlog[i].state = "ABORTED_DUE_TO_ERROR"

\* With the call i the end of input has been reached, no call having
\* returned an error
ReachedEndClean(i) ==
    /\ tlog[i].state = "REACHED_EOF"
    /\ \A k \in CallsMade : k <= i => tlog[k].ret # "C_ERROR"

\* Every call after an end of input reached without error returns
\* C_NOTHING_MORE
NothingMoreForEver ==
    phase \in {"push", "pull"} =>
        \A i \in CallsMade : \A j \in CallsMade :
            (i < j /\ ReachedEndClean(i)) => tlog[j].ret = "C_NOTHING_MORE"

\* C22: the terminal states of the tokenizer.  Once a call has moved the
\* tokenizer to the aborted state (it returned C_ERROR), every later call of
\* process_char, process_eof or fetch_token returns C_ERROR, whatever the
\* input goes on with, its end included; and once the end of input has been
\* reached without error every later call returns C_NOTHING_MORE.
C22_TerminalStates ==
    /\ phase \in {"push", "pull"} =>
           \A i \in CallsMade : \A j \in CallsMade :
               (i < j /\ MovedToAborted(i)) => tlog[j].ret = "C_ERROR"
    /\ NothingMoreForEver

\* The character @ aborts the tokenizer, process_eof returns C_ERROR and
\* the call after it C_NOTHING_MORE
C22_Witness ==
    /\ phase = "push" /\ Len(tlog) = 4
    /\ tlog[1].ch = 64
    /\ tlog[2].op = "process_char" /\ MovedToAborted(2)
    /\ tlog[3].op = "process_eof" /\ tlog[3].ret = "C_ERROR"
    /\ tlog[3].state = "REACHED_EOF"
    /\ tlog[4].op = "process_char" /\ tlog[4].ret = "C_NOTHING_MORE"

\* The same with fetch_token, on the text @a
AbortedThenNothingMore ==
    /\ phase = "pull" /\ tok.src = <<64, 97>> /\ Len(tlog) = 4
    /\ MovedToAborted(2)
    /\ tlog[3].ret = "C_ERROR" /\ tlog[3].state = "REACHED_EOF"
    /\ tlog[4].ret = "C_NOTHING_MORE"

\* The calls after the one that aborted return C_ERROR up to the call that
\* reaches the end of input, that call included
AbortedUntilEnd ==
    phase \in {"push", "pull"} =>
        \A i \in CallsMade : \A j \in CallsMade :
            (/\ i < j /\ MovedToAborted(i)
             /\ \A k \in CallsMade : k < j => tlog[k].state # "REACHED_EOF")
            => tlog[j].ret = "C_ERROR"

\* The end of the text a, reached with C_STRING, and two calls after it
NothingMoreTwice ==
    /\ phase = "pull" /\ tok.src = <<97>> /\ Len(tlog) = 4
    /\ tlog[2].ret = "C_STRING" /\ ReachedEndClean(2)
    /\ tlog[3].ret = "C_NOTHING_MORE" /\ tlog[4].ret = "C_NOTHING_MORE"

\* The text is a quoted string that has no closing double quote (the texts
\* explored hold no backslash)
OpenString(text) ==
    /\ text # <<>> /\ text[1] = 34
    /\ \A i \in 2..Len(text) : text[i] # 34

\* C30: the unterminated string.  When the input ends inside a quoted string
\* that has no closing double quote, the tokenizer goes to the aborted state
\* and reports C_ERROR, from process_eof and from fetch_token, not
\* C_NEED_MORE_CHARS, C_STRING or C_NOTHING_MORE.
C30_UnclosedString ==
    (AtEndOfText /\ OpenString(Given)) => tok.last_process_ret = "C_ERROR"

\* fetch_token on the text "a returns C_NOTHING_MORE
C30_Witness ==
    /\ phase = "pull" /\ tok.src = <<34, 97>>
    /\ AtEndOfText /\ OpenString(Given)
    /\ Len(tlog) = 2
    /\ tok.last_process_ret = "C_NOTHING_MORE" /\ tok.string = <<97>>

\* process_eof after the characters "a returns C_NEED_MORE_CHARS
UnclosedStringFed ==
    /\ phase = "push" /\ Given = <<34, 97>>
    /\ AtEndOfText /\ OpenString(Given)
    /\ last.before.state = "IN_STRING"
    /\ tok.last_process_ret = "C_NEED_MORE_CHARS" /\ tok.state = "REACHED_EOF"

\* No unclosed string is reported as an error
UnclosedStringNeverReported ==
    (AtEndOfText /\ OpenString(Given)) =>
        tok.last_process_ret = (IF phase = "pull" THEN "C_NOTHING_MORE"
                                ELSE "C_NEED_MORE_CHARS")

\* The characters given one by one begin with /* and the tokenizer has
\* returned nothing but C_NEED_MORE_CHARS before the last call, which is no
\* call after the end of input
InFirstComment ==
    /\ phase = "push" /\ tok.ok /\ Len(Given) >= 2
    /\ Given[1] = 47 /\ Given[2] = 42
    /\ \A i \in 1..Len(Earlier) :
           Earlier[i].ret = "C_NEED_MORE_CHARS" /\ Earlier[i].op # "process_eof"

\* Place in the text of the character the last call has processed
Processed == IF last.op = "process_char" THEN Len(Given) - 1 ELSE Len(Given)

\* The last call has closed the comment: back to the idle state, C_SPACE
ClosesComment ==
    /\ InFirstComment
    /\ last.before.state = "IN_COMMENT"
    /\ tok.last_process_ret = "C_SPACE"

\* The character at place k is the / of a closing */
IsEnd(text, k) == k >= 4 /\ k <= Len(text) /\ text[k - 1] = 42 /\ text[k] = 47

\* C29: block comments end at the two characters */ only.  Inside a comment
\* opened by /*, the tokenizer returns to the idle state only on a / that
\* immediately follows a *; a * followed by another character does not let
\* a later / close the comment, so that the text between /* and the first */
\* is skipped exactly.
C29_CommentEnd ==
    /\ ClosesComment =>
           /\ IsEnd(Given, Processed)
           /\ \A k \in 1..(Processed - 1) : ~IsEnd(Given, k)
    /\ (InFirstComment /\ IsEnd(Given, Processed)
        /\ \A k \in 1..(Processed - 1) : ~IsEnd(Given, k)) => ClosesComment

\* In /**a/ the comment is closed by the / behind the a
C29_Witness ==
    /\ ClosesComment
    /\ Given = <<47, 42, 42, 97, 47, 44>>
    /\ last.op = "process_char" /\ Processed = 5
    /\ ~IsEnd(Given, 5)
    /\ last.before.sub_state = "IN_COMMENT_SLASHSTAR_MATCHED_POTENTIAL_CLOSING_STAR"
    /\ tok.state = "IDLING"

\* No star in the comment but the one before the closing /
StarOnlyAtEnd ==
    \A k \in 3..(Processed - 2) : Given[k] # 42

\* The comments with no star inside end at their */ and nowhere else
CommentEndOfOthers ==
    /\ (ClosesComment /\ StarOnlyAtEnd) => IsEnd(Given, Processed)
    /\ (InFirstComment /\ IsEnd(Given, Processed)
        /\ \A k \in 1..(Processed - 1) : ~IsEnd(Given, k)) => ClosesComment

\* The comment /*a*/ is closed by its last character
CommentClosed ==
    /\ ClosesComment /\ Given = <<47, 42, 97, 42, 47>>
    /\ last.op = "process_eof" /\ IsEnd(Given, 5)

\* The JSON number grammar -?(0|[1-9][0-9]*)(.[0-9]+)?([eE][+-]?[0-9]+)?
AllDigits(s) == \A i \in 1..Len(s) : s[i] >= 48 /\ s[i] <= 57

IntPart(s) == s # <<>> /\ AllDigits(s) /\ (Len(s) = 1 \/ s[1] # 48)

FracPart(s) == s = <<>> \/ (Len(s) >= 2 /\ s[1] = 46 /\ AllDigits(Tail(s)))

ExpPart(s) ==
    \/ s = <<>>
    \/ /\ s[1] \in {101, 69}
       /\ LET d == IF Len(s) >= 2 /\ s[2] \in {43, 45}
                   THEN SubSeq(s, 3, Len(s)) ELSE Tail(s)
          IN d # <<>> /\ AllDigits(d)

JsonNumber(r) ==
    LET u == IF r # <<>> /\ r[1] = 45 THEN Tail(r) ELSE r
    IN \E i \in 0..Len(u) : \E j \in i..Len(u) :
          /\ IntPart(SubSeq(u, 1, i))
          /\ FracPart(SubSeq(u, i + 1, j))
          /\ ExpPart(SubSeq(u, j + 1, Len(u)))

\* The characters a number is made of
NumberChar(ch) == (ch >= 48 /\ ch <= 57) \/ ch \in {45, 43, 46, 101, 69}

\* The maximal run of number characters at the head of the text
RunOf(text) ==
    SubSeq(text, 1,
           CHOOSE n \in 0..Len(text) :
               /\ \A i \in 1..n : NumberChar(text[i])
               /\ n < Len(text) => ~NumberChar(text[n + 1]))

\* The first fetch_token over a text that begins with a digit or a minus
NumberFetched ==
    /\ phase = "pull" /\ Len(tlog) = 2 /\ last.op = "fetch_token"
    /\ tok.src # <<>>
    /\ (tok.src[1] >= 48 /\ tok.src[1] <= 57) \/ tok.src[1] = 45

\* What the grammar asks of the tokenizer for the run at the head of the text:
\* C_NUMBER with the run as its text and the terminator as the next character
\* to process, or C_ERROR
AsTheGrammar(run) ==
    IF JsonNumber(run)
    THEN /\ tok.last_process_ret = "C_NUMBER"
         /\ tok.string = run
         /\ tok.pos = Len(run)
         /\ Len(run) < Len(tok.src) =>
                tok.state = "IDLING" /\ tok.prev_char = tok.src[Len(run) + 1]
    ELSE tok.last_process_ret = "C_ERROR"

\* C23: numbers.  Starting in the idle state on a digit or a minus, the
\* tokenizer returns C_NUMBER exactly when the maximal run of number
\* characters matches the JSON number grammar, and C_ERROR for every other
\* run; when C_NUMBER is returned the character that ends the number has
\* not been consumed and is the first character of the next token.
C23_Numbers == NumberFetched => AsTheGrammar(RunOf(tok.src))

\* The text 01, is returned as a number
C23_Witness ==
    /\ NumberFetched
    /\ tok.src = <<48, 49, 44>> /\ RunOf(tok.src) = <<48, 49>>
    /\ ~JsonNumber(<<48, 49>>)
    /\ tok.last_process_ret = "C_NUMBER" /\ tok.string = <<48, 49>>

\* The integer part of the run is a zero followed by more digits
LeadingZero(run) ==
    LET u == IF run # <<>> /\ run[1] = 45 THEN Tail(run) ELSE run
    IN Len(u) >= 2 /\ u[1] = 48 /\ u[2] >= 48 /\ u[2] <= 57

\* Apart from the leading zeros the tokenizer follows the grammar
NumbersOfOthers ==
    (NumberFetched /\ ~LeadingZero(RunOf(tok.src))) => AsTheGrammar(RunOf(tok.src))

\* The run without the leading zeros of its integer part
RECURSIVE Stripped(_)
Stripped(run) ==
    IF LeadingZero(run)
    THEN Stripped(IF run[1] = 45 THEN <<45>> \o SubSeq(run, 3, Len(run))
                  ELSE Tail(run))
    ELSE run

\* A run is returned as a number exactly when it is one once its leading
\* zeros are taken away
LeadingZeroTaken ==
    NumberFetched =>
        ((tok.last_process_ret = "C_NUMBER") <=> JsonNumber(Stripped(RunOf(tok.src))))

\* A number with fraction and exponent, the comma behind it left to be read
NumberThenComma ==
    /\ phase = "pull" /\ Len(tlog) = 3
    /\ tok.src = <<49, 46, 49, 101, 49, 44>>
    /\ tlog[2].ret = "C_NUMBER" /\ tlog[3].ret = "C_COMMA"

\* A run that is no number
NumberRefused ==
    /\ NumberFetched /\ tok.src = <<45, 49, 46, 44>>
    /\ tok.last_process_ret = "C_ERROR"

\* The reader of a JSON text has just made the call named op on a decoder
\* whose innermost open element was of the given type
TextCall(op, type) ==
    /\ fmt = "json" /\ phase = "tdec" /\ last.op = op
    /\ ~last.before.is_typed
    /\ dec_json_top_in(last.before, {type})

\* The token the next fetch_token of the decoder d gives
Upcoming(d) == dec_json_token(dec_json_fetch_token(d))

\* The tokens a value can begin with
ValueStart == {"C_NUMBER", "C_STRING", "C_BRACKET_OPEN", "C_BRACE_OPEN",
               "C_TRUE", "C_FALSE", "C_NULL"}

\* The call has returned true and the decode call that follows reads the
\* token that came after the decoder state f
BegunBefore(f) ==
    /\ dec.ok /\ dec.ret[1] = 1
    /\ Upcoming(dec) = Upcoming(f)
    /\ dec_json_fetch_token(dec).tokenizer = dec_json_fetch_token(f).tokenizer

\* The exception exception_marshal has been raised
Raised == ~dec.ok /\ ~dec.aborted

ArrayElementRule ==
    LET b == last.before
        first == Top(b.stack).items = 0
        f1 == dec_json_fetch_token(b)
    IN /\ Upcoming(b) = "C_BRACKET_CLOSE" => dec.ok /\ dec.ret = <<0>>
       /\ (first /\ Upcoming(b) \in ValueStart) =>
              BegunBefore(b) /\ Top(dec.stack).type = "ARRAY_ELEMENT"
       /\ (~first /\ Upcoming(b) = "C_COMMA" /\ Upcoming(f1) \in ValueStart) =>
              BegunBefore(f1) /\ Top(dec.stack).type = "ARRAY_ELEMENT"
       /\ (~first /\ Upcoming(b) \notin {"C_COMMA", "C_BRACKET_CLOSE"}) => Raised

DictionaryElementRule ==
    LET b == last.before
        first == Top(b.stack).items = 0
        f1 == dec_json_fetch_token(b)
        key == IF first THEN f1 ELSE dec_json_fetch_token(f1)
        colon == dec_json_fetch_token(key)
    IN /\ Upcoming(b) = "C_BRACE_CLOSE" => dec.ok /\ dec.ret = <<0>>
       /\ (/\ first \/ Upcoming(b) = "C_COMMA"
           /\ dec_json_is_name(key) /\ dec_json_token(colon) = "C_COLON") =>
              /\ BegunBefore(colon)
              /\ dec.ret = <<1>> \o write_utf8(dec_json_string(key))
              /\ Top(dec.stack).type = "DICTIONARY_ELEMENT"
       /\ (~first /\ Upcoming(b) \notin {"C_COMMA", "C_BRACE_CLOSE"}) => Raised

\* C27: lookahead in arrays and dictionaries.  decode_array_element_begin
\* and decode_dictionary_element_begin return true for a first element
\* that has no leading comma and for each later element preceded by one
\* comma, leaving the first token of the element's value to the decode call
\* that follows; they return false when the next token is the closing
\* bracket or brace; they raise exception_marshal when a later element is
\* not preceded by a comma.
C27_ElementLookahead ==
    /\ TextCall("decode_array_element_begin", "ARRAY") => ArrayElementRule
    /\ TextCall("decode_dictionary_element_begin", "DICTIONARY") =>
           DictionaryElementRule

\* The second element of [1,"a"]: the comma is consumed, the string is left
C27_Witness ==
    /\ TextCall("decode_array_element_begin", "ARRAY")
    /\ dec.tokenizer.src = <<91, 49, 44, 34, 97, 34, 93>>
    /\ Top(last.before.stack).items = 1
    /\ Upcoming(last.before) = "C_COMMA"
    /\ dec.ok /\ dec.ret = <<1>> /\ Upcoming(dec) = "C_STRING"

\* The first element of [1]: the number is put back for decode_u8
FirstElementLeft ==
    /\ TextCall("decode_array_element_begin", "ARRAY")
    /\ dec.tokenizer.src = <<91, 49, 93>>
    /\ Top(last.before.stack).items = 0
    /\ dec.ok /\ dec.ret = <<1>> /\ dec.resubmit_prev_token
    /\ dec_json_token(dec) = "C_NUMBER"

\* The end of [1]
ArrayClosed ==
    /\ TextCall("decode_array_element_begin", "ARRAY")
    /\ dec.tokenizer.src = <<91, 49, 93>>
    /\ Top(last.before.stack).items = 1
    /\ dec.ok /\ dec.ret = <<0>>

\* The second element of [1"a"] has no comma before it
ArrayCommaMissing ==
    /\ TextCall("decode_array_element_begin", "ARRAY")
    /\ dec.tokenizer.src = <<91, 49, 34, 97, 34, 93>>
    /\ Top(last.before.stack).items = 1
    /\ ~last.before.resubmit_prev_token
    /\ Upcoming(last.before) = "C_STRING"
    /\ Raised

\* The second element of {"a":1,"a":null}
DictionarySecondElement ==
    /\ TextCall("decode_dictionary_element_begin", "DICTIONARY")
    /\ dec.tokenizer.src = <<123, 34, 97, 34, 58, 49, 44,
                             34, 97, 34, 58, 110, 117, 108, 108, 125>>
    /\ Top(last.before.stack).items = 1
    /\ dec.ok /\ dec.ret = <<1, 97>> /\ Upcoming(dec) = "C_NULL"

\* The second element of {"a":1"a":1} has no comma before it
DictionaryCommaMissing ==
    /\ TextCall("decode_dictionary_element_begin", "DICTIONARY")
    /\ dec.tokenizer.src = <<123, 34, 97, 34, 58, 49, 34, 97, 34, 58, 49, 125>>
    /\ Top(last.before.stack).items = 1
    /\ Upcoming(last.before) = "C_STRING"
    /\ Raised

\* The end of {"a":1}
DictionaryClosed ==
    /\ TextCall("decode_dictionary_element_begin", "DICTIONARY")
    /\ dec.tokenizer.src = <<123, 34, 97, 34, 58, 49, 125>>
    /\ Top(last.before.stack).items = 1
    /\ dec.ok /\ dec.ret = <<0>>

\* The reader of a JSON text has made a call, on a decoder that held a token
\* put back or not
ReadingText == fmt = "json" /\ phase = "tdec" /\ last.op # "none"

\* The calls that begin with their one fetch_token
FetchesOnce == {"decode_int", "decode_string_utf8"}

\* The slot of the decoder d is set: its next fetch_token gives the token
\* put back, clears the slot and leaves the input where it is, and the
\* fetch_token after that one reads the input
PutBackOnce(d) ==
    LET f == dec_json_fetch_token(d)
    IN /\ f = [d EXCEPT !.resubmit_prev_token = FALSE]
       /\ dec_json_token(f) = dec_json_token(d)
       /\ dec_json_fetch_token(f).tokenizer = json_tokenizer_fetch_token(d.tokenizer)

\* C28: the single slot of resubmit_prev_token.  For every input and every
\* sequence of calls of marshal_dec_json, resubmit_prev_token is never
\* called while the slot is set (its assertion never fails), and a token
\* put back is returned by exactly the next fetch_token, which clears the
\* slot without consuming input.
C28_ResubmitSlot ==
    ReadingText =>
        /\ dec.aborted => (last.before.is_typed \/ ~dec.tokenizer.ok)
        /\ (dec.ok /\ dec.resubmit_prev_token) => PutBackOnce(dec)
        /\ (last.before.resubmit_prev_token /\ last.op \in FetchesOnce) =>
               /\ ~dec.resubmit_prev_token
               /\ dec.tokenizer = last.before.tokenizer

\* decode_u8 reads the number that decode_array_element_begin has put back
C28_Witness ==
    /\ ReadingText /\ last.op = "decode_int"
    /\ dec.tokenizer.src = <<91, 49, 93>>
    /\ last.before.resubmit_prev_token
    /\ dec_json_token(last.before) = "C_NUMBER"
    /\ dec.ok /\ dec.ret = <<1>>
    /\ ~dec.resubmit_prev_token
    /\ dec.tokenizer = last.before.tokenizer

\* decode_struct_field_begin puts back the value of an optional field
FieldValuePutBack ==
    /\ ReadingText /\ last.op = "decode_struct_field_begin"
    /\ dec.tokenizer.src = <<123, 34, 97, 34, 58, 49, 125>>
    /\ dec.ok /\ dec.present /\ dec.resubmit_prev_token
    /\ dec_json_token(dec) = "C_NUMBER"
    /\ PutBackOnce(dec)

\* decode_struct_field_begin puts back the closing brace, twice in a row
BracePutBackAgain ==
    /\ ReadingText /\ last.op = "decode_struct_field_begin"
    /\ last.before.resubmit_prev_token
    /\ dec_json_token(last.before) = "C_BRACE_CLOSE"
    /\ dec.ok /\ dec.ret = <<marshal_label_id_INVALID>>
    /\ dec.resubmit_prev_token /\ ~dec.aborted

\* The exact value of a run of decimal digits, in five limbs
RECURSIVE BigOf(_, _)
BigOf(text, acc) ==
    IF text = <<>> THEN acc
    ELSE BigOf(Tail(text), SubSeq(MulAdd(acc, 10, Head(text) - 48), 1, 5))

\* A canonical decimal integer literal: an optional minus, then 0 or digits
\* that begin with 1-9
CanonicalInteger(text) ==
    IntPart(IF text # <<>> /\ text[1] = 45 THEN Tail(text) ELSE text)

Magnitude(text) ==
    BigOf(IF text[1] = 45 THEN Tail(text) ELSE text, <<0, 0, 0, 0, 0>>)

\* The literal denotes an integer of -2^63 .. 2^63 - 1, of 2^63 .. 2^64 - 1
InInt64(text) ==
    LET mag == Magnitude(text)
    IN mag[5] = 0 /\ (mag[4] < 32768 \/ (text[1] = 45 /\ mag = <<0, 0, 0, 32768, 0>>))

InUint64(text) ==
    LET mag == Magnitude(text)
    IN text[1] # 45 /\ mag[5] = 0 /\ mag[4] >= 32768

\* The 64-bit value of a literal that has one
ValueOf(text) ==
    IF text[1] = 45 THEN WNeg(Low64(Magnitude(text))) ELSE Low64(Magnitude(text))

\* The multinum holds the literal as the classification asks
Classified(text) ==
    IF InInt64(text)
    THEN /\ num.level = "INT64" /\ num.integral = ValueOf(text)
         /\ multinum_get(num, "i64", NumMin("i64"), NumMax("i64"))
                = <<ValueOf(text), TRUE>>
    ELSE IF InUint64(text)
    THEN num.level = "UINT64" /\ num.integral = ValueOf(text)
    ELSE num.level = "DOUBLE_ONLY"

\* The caller of multinum has just parsed a canonical decimal integer literal
LiteralParsed ==
    /\ phase \in {"num", "dead"} /\ last.op = "parse"
    /\ CanonicalInteger(last.arg)

\* C24: classification of decimal integer literals.  For every canonical
\* decimal integer literal n, parse yields level INT64 with i64 = n iff
\* -2^63 <= n <= 2^63 - 1, level UINT64 with u64 = n iff
\* 2^63 <= n <= 2^64 - 1, and level DOUBLE_ONLY for every n outside
\* [-2^63, 2^64 - 1]; get<int64_t>() returns n for the small ones; a literal
\* that overflows 64 bits is never accepted as a wrapped integral value.
C24_Classification ==
    LiteralParsed => (phase = "num" /\ Classified(last.arg))

\* 30000000000000000000 is held as the uint64_t 11553255926290448384
C24_Witness ==
    /\ LiteralParsed /\ phase = "num"
    /\ last.arg = Lit(<<3,0,0,0,0,0,0,0,0,0,0,0,0,0,0,0,0,0,0,0>>)
    /\ ~InInt64(last.arg) /\ ~InUint64(last.arg)
    /\ num.level = "UINT64"
    /\ num.integral = <<0, 40376, 26893, 41045>>

\* 20496382304121724020 is held as the int64_t 2049638230412172404
WrappedAsInt64 ==
    /\ LiteralParsed /\ phase = "num"
    /\ last.arg = Lit(<<2,0,4,9,6,3,8,2,3,0,4,1,2,1,7,2,4,0,2,0>>)
    /\ ~InInt64(last.arg) /\ ~InUint64(last.arg)
    /\ num.level = "INT64"
    /\ num.integral = <<7284, 29127, 50972, 7281>>

\* The literals of -2^63 .. 2^64 - 1 are classified as said, in a build with
\* wrap-around arithmetic; no literal below 2^63 meets undefined behaviour
ClassifiedInRange ==
    (LiteralParsed /\ (InInt64(last.arg) \/ InUint64(last.arg))) =>
        /\ phase = "num" => Classified(last.arg)
        /\ phase = "dead" => InUint64(last.arg)

\* 2^63 - 1, -2^63, 2^64 - 1 at their levels
MaxInt64Parsed ==
    /\ LiteralParsed /\ phase = "num"
    /\ last.arg = Lit(<<9,2,2,3,3,7,2,0,3,6,8,5,4,7,7,5,8,0,7>>)
    /\ num.level = "INT64" /\ num.integral = INT64_MAX

MinInt64Parsed ==
    /\ LiteralParsed /\ phase = "num"
    /\ last.arg = Minus(Lit(<<9,2,2,3,3,7,2,0,3,6,8,5,4,7,7,5,8,0,8>>))
    /\ num.level = "INT64" /\ num.integral = INT64_MIN

MaxUint64Parsed ==
    /\ LiteralParsed /\ phase = "num"
    /\ last.arg = Lit(<<1,8,4,4,6,7,4,4,0,7,3,7,0,9,5,5,1,6,1,5>>)
    /\ num.level = "UINT64" /\ num.integral = UINT64_MAX

\* 2^64 and -2^63 - 1 are held as doubles only
OutOfRangeParsed ==
    /\ LiteralParsed /\ phase = "num"
    /\ last.arg = Lit(<<1,8,4,4,6,7,4,4,0,7,3,7,0,9,5,5,1,6,1,6>>)
    /\ num.level = "DOUBLE_ONLY"

BelowInt64Parsed ==
    /\ LiteralParsed /\ phase = "num"
    /\ last.arg = Minus(Lit(<<9,2,2,3,3,7,2,0,3,6,8,5,4,7,7,5,8,0,9>>))
    /\ num.level = "DOUBLE_ONLY"

\* The conversion of 2^63 as int64_t overflows: a build that traps ends here
TrappedAtUint64 ==
    /\ LiteralParsed /\ phase = "dead"
    /\ last.arg = Lit(<<9,2,2,3,3,7,2,0,3,6,8,5,4,7,7,5,8,0,8>>)
    /\ last.ret = <<"trap">>

\* The caller of multinum has made a call and the program goes on
NumCalled == phase = "num" /\ last.op \in {"parse", "set", "set_double", "clear"}

\* get<uint64_t>()
GetUint64 == multinum_get(num, "u64", NumMin("u64"), NumMax("u64"))

\* C25: the representation of a multinum.  After any sequence of parse, set
\* and clear calls, when the level is INT64 the stored i64 and the stored
\* double denote the same number, and get<uint64_t>() succeeds iff that
\* number is not negative; so for every lexeme parse accepts, leading zeros
\* and 0x or 0b prefixes included.
C25_Representation ==
    (NumCalled /\ num.level = "INT64") =>
        /\ num.double.whole =>
               WFits32(num.integral) /\ IntOfWord(num.integral) = num.double.value
        /\ GetUint64[2] <=> ~WNegative(num.integral)

\* parse("010"): the i64 is 8, read as octal, and the double is 10.0
C25_Witness ==
    /\ NumCalled /\ last.op = "parse" /\ last.arg = <<48, 49, 48>>
    /\ num.level = "INT64"
    /\ num.integral = Word(8)
    /\ num.double = [ok |-> TRUE, whole |-> TRUE, value |-> 10]

\* parse("0b11"): the i64 is 3 and the double is 0.0
BinaryPrefixParsed ==
    /\ NumCalled /\ last.op = "parse" /\ last.arg = <<48, 98, 49, 49>>
    /\ num.level = "INT64"
    /\ num.integral = Word(3)
    /\ num.double = [ok |-> TRUE, whole |-> TRUE, value |-> 0]

\* parse("0x10"): 16 and 16.0
HexPrefixParsed ==
    /\ NumCalled /\ last.op = "parse" /\ last.arg = <<48, 120, 49, 48>>
    /\ num.level = "INT64"
    /\ num.integral = Word(16)
    /\ num.double = [ok |-> TRUE, whole |-> TRUE, value |-> 16]

\* The text parsed has a leading zero before more digits, or the prefix 0b
OctalOrBinary(text) ==
    LET u == IF text # <<>> /\ text[1] \in {43, 45} THEN Tail(text) ELSE text
    IN Len(u) >= 2 /\ u[1] = 48 /\ u[2] \in {66, 98} \cup 48..57

\* Apart from those texts the i64 and the double agree, and get<uint64_t>()
\* succeeds for the values that are not negative and for no other
RepresentationOfOthers ==
    (NumCalled /\ num.level = "INT64"
     /\ ~(last.op = "parse" /\ OctalOrBinary(last.arg))) =>
        /\ num.double.whole =>
               WFits32(num.integral) /\ IntOfWord(num.integral) = num.double.value
        /\ GetUint64[2] <=> ~WNegative(num.integral)

\* set<int64_t>(-1): get<uint64_t>() fails
NegativeSet ==
    /\ NumCalled /\ last.op = "set" /\ last.arg = <<"i64", WordOfInt(-1)>>
    /\ num.level = "INT64" /\ num.double.value = -1
    /\ GetUint64 = <<WZero, FALSE>>

\* parse("1e2"): the double promoted to the i64 100
ExponentParsed ==
    /\ NumCalled /\ last.op = "parse" /\ last.arg = <<49, 101, 50>>
    /\ num.level = "INT64" /\ num.integral = Word(100)

\* The caller of multinum has just called get<kind>(min_value, max_value)
GetCalled == phase = "num" /\ last.op = "get"

\* a < b as integers, a being a value of a signed type or not, and b
IntLess(a, a_signed, b, b_signed) ==
    LET a_neg == a_signed /\ WNegative(a)
        b_neg == b_signed /\ WNegative(b)
    IN IF a_neg # b_neg THEN a_neg ELSE WULess(a, b)

\* What get<kind>(min_value, max_value) has to return by the integer held
GetExpected(m, kind, min_value, max_value) ==
    IF /\ m.level \in {"INT64", "UINT64"}
       /\ ~IntLess(m.integral, m.level = "INT64", min_value, IsSigned(kind))
       /\ ~IntLess(max_value, IsSigned(kind), m.integral, m.level = "INT64")
    THEN <<m.integral, TRUE>>
    ELSE <<WZero, FALSE>>

\* C26: get<T>(min, max) of an integral T returns (v, true) iff the level is
\* INT64 or UINT64 and the integer v held satisfies min <= v <= max, the
\* three compared as integers, and (0, false) otherwise: so for the levels
\* INVALID and DOUBLE_ONLY, for a negative value asked as unsigned, for a
\* UINT64 value asked as another type than uint64_t; the v returned is never
\* a truncated or wrapped value.
C26_GetInRange ==
    GetCalled =>
        last.ret = GetExpected(num, last.arg[1], last.arg[2], last.arg[3])

\* set<int64_t>(5), then get<uint64_t>(2^63, 2^64 - 1) returns (5, true)
C26_Witness ==
    /\ GetCalled
    /\ num.level = "INT64" /\ num.integral = Word(5)
    /\ last.arg = <<"u64", INT64_MIN, UINT64_MAX>>
    /\ last.ret = <<Word(5), TRUE>>

\* set<int64_t>(-1), then get<uint64_t>(2^64 - 1, 2^64 - 1) returns
\* (2^64 - 1, true)
NegativeAsUint64 ==
    /\ GetCalled
    /\ num.level = "INT64" /\ num.integral = WordOfInt(-1)
    /\ last.arg = <<"u64", UINT64_MAX, UINT64_MAX>>
    /\ last.ret = <<UINT64_MAX, TRUE>>

\* The requests with a lower limit of uint64_t above 2^63 - 1 on a value of
\* level INT64
HighLowerLimit ==
    /\ num.level = "INT64" /\ last.arg[1] = "u64" /\ WNegative(last.arg[2])

\* A value of level UINT64 below 2^63, which only a wrapped literal gives
WrappedUint64 == num.level = "UINT64" /\ ~WNegative(num.integral)

\* Every other request is answered as the claim says
GetOfOthers ==
    (GetCalled /\ ~HighLowerLimit /\ ~WrappedUint64) =>
        last.ret = GetExpected(num, last.arg[1], last.arg[2], last.arg[3])

\* A negative value asked as uint64_t with the limits of the type
NegativeRefused ==
    /\ GetCalled
    /\ num.level = "INT64" /\ num.integral = WordOfInt(-1)
    /\ last.arg = <<"u64", WZero, UINT64_MAX>>
    /\ last.ret = <<WZero, FALSE>>

\* 2^63 asked as int64_t, and as uint64_t
Uint64AsInt64 ==
    /\ GetCalled
    /\ num.level = "UINT64" /\ num.integral = INT64_MIN
    /\ last.arg = <<"i64", INT64_MIN, INT64_MAX>>
    /\ last.ret = <<WZero, FALSE>>

Uint64Got ==
    /\ GetCalled
    /\ num.level = "UINT64" /\ num.integral = INT64_MIN
    /\ last.arg = <<"u64", Word(5), UINT64_MAX>>
    /\ last.ret = <<INT64_MIN, TRUE>>

\* 200 asked as int8_t, and as uint8_t
OutOfInt8 ==
    /\ GetCalled
    /\ num.level = "INT64" /\ num.integral = Word(200)
    /\ \/ last.arg = <<"i8", NumMin("i8"), NumMax("i8")>> /\ last.ret = <<WZero, FALSE>>
       \/ last.arg = <<"u8", NumMin("u8"), NumMax("u8")>> /\ last.ret = <<Word(200), TRUE>>

\* A double that is no whole number, asked as an integer
DoubleOnlyRefused ==
    /\ GetCalled /\ num.level = "DOUBLE_ONLY"
    /\ last.arg = <<"i64", INT64_MIN, INT64_MAX>>
    /\ last.ret = <<WZero, FALSE>>

====
